---- MODULE Spec2Model ----
(***************************************************************************)
(* A model of the resource-access core of the blockless runtime:           *)
(*   - the raw HTTP/1.1 client's chunked-body decoder (HttpRaw),           *)
(*   - the driver registry (DriverConetxt),                                *)
(*   - the URL-prefix Permission and the permissions container,            *)
(*   - the host-call bridge (http_req, http_close, tcp_connect, ...).      *)
(* Bytes are their ASCII codes; strings are sequences of bytes.            *)
(***************************************************************************)
EXTENDS Integers, Sequences, FiniteSets, TLC

VARIABLES
    \* ---- HttpRaw::read_bulks (http_raw.rs) ----
    wire,       \* bytes the peer has sent that the transport has not delivered yet
    closed,     \* TRUE: the peer closes after its last byte (reads then return 0)
    body_bulk,  \* the buffered remainder (BytesMut)
    chunks,     \* the Vec<BytesMut> of decoded chunk payloads
    rpc,        \* position of read_bulks: "loop", "done", "err", "panic"
    ioFailed,   \* ghost: a transport read returned an error
    reads,      \* ghost: TRUE once read_bulks has issued a transport read
    stream,     \* ghost: the whole body as the peer sends it
    payloads,   \* ghost: the chunk payloads the peer encoded (<<>> if malformed)
    valid,      \* ghost: stream is a complete, well-formed chunked body
    \* ---- DriverConetxtImpl (lib.rs) ----
    drivers,    \* HashMap<String, Arc<dyn Driver>>: key -> driver instance
    inserted,   \* ghost: every driver handed to insert_driver, in call order
    lastUri,    \* the uri of the latest find_driver call (<<>> before any)
    lastFound,  \* what that call returned: a driver instance or None
    \* ---- Permission (permission.rs, cli_clap.rs) ----
    permArg,    \* the text given to --permission
    perm,       \* the Permission parse_permission built from it, or None
    candUrl,    \* the url handed to is_permision
    permitted,  \* what is_permision returned
    ppc,        \* "start", "parsed", "rejected", "checked"
    \* ---- BlsRuntimePermissionsContainer (permission.rs) ----
    built,      \* how the container was built: "allow_all" or "config"
    flags,      \* the PermissionFlags it was built from (NoFlags for allow_all)
    parent,     \* the container's permissions, as they are now
    revokes,    \* number of revoke_<class> calls made on the container
    child,      \* the container create_child_permissions returned, or None
    childArg,   \* the ChildPermissionsArg of that call, or None
    childErr,   \* TRUE when that call returned an error
    parentThen, \* ghost: the container's permissions when that call was made
    requested,  \* the request_<class> call made: [cls, desc, before, after], or None
    \* ---- the host-call bridge (wasi/http.rs, wasi/socket.rs) ----
    ctxPerms,   \* the guest context's permissions
    httpTable,  \* the http driver's sessions: [live: set of handles, next]
    fdTable,    \* the context's handle table: [live: set of fds, next]
    call,       \* the latest host call: its arguments, events and result
    \* ---- HttpErrorKind conversions (wasi/http.rs) ----
    errLog,     \* the conversions made so far: [code, kind, reported]
    \* ---- tasks calling DriverConetxt through DRIVERS (lib.rs) ----
    taskPc,     \* per task: "idle", "blocked" in lock(), "inside" the guarded call, "opening"
    taskOp,     \* per task: the call it is making, [op, arg], or None
    lockHolder, \* the task holding the DRIVERS mutex, or 0
    \* ---- CliCommandOpts::load_environment_vars (cli_clap.rs) ----
    envFile,    \* what --env-file yields: NoEnvFile, Unreadable or the file's pairs
    envs,       \* the --env pairs, in command-line order
    finalEnvs,  \* what load_environment_vars returned: the pairs, or Err
    envPc,      \* "idle", "start", "loaded"
    \* ---- HttpRaw: the session and what it writes (http_raw.rs) ----
    raw,        \* the HttpRaw: [url, method, boundary, header, tcp_stream]
    rawOp,      \* the latest call on it: [op, arg, ret, val, wrote, io]
    \* ---- HttpRaw::read_response, the header loop (http_raw.rs) ----
    respWire,    \* bytes of the response the transport has not delivered yet
    respClosed,  \* TRUE: the peer closes after its last byte (reads then return 0)
    bulk,        \* the bytes read so far; readn is its length
    iter,        \* the loop variable of `for i in 1..10`
    parsed_pos,  \* where the header block ends in bulk; 0 until it is parsed
    status_code, \* resp.code; 0 until the header block is parsed
    respPc,      \* "idle", "loop", "body" (read_bulks is entered), "err"
    respEof,     \* ghost: a read returned 0 bytes
    sent,        \* ghost: the response the peer sends: [code, block]
    \* ---- CliCommandOpts::into_config (cli_clap.rs) ----
    cliOpts,    \* the parsed command line: [input, modules, entry, limited_memory, ...]
    conf,       \* the BlocklessConfig into_config fills
    confThen,   \* ghost: the configuration when into_config was called
    cfgPc       \* "idle", "start", "done", "err"

rbVars == <<wire, closed, body_bulk, chunks, rpc, ioFailed, reads, stream, payloads, valid>>

regVars == <<drivers, inserted, lastUri, lastFound>>

permVars == <<permArg, perm, candUrl, permitted, ppc>>

contVars == <<built, flags, parent, revokes, child, childArg, childErr, parentThen, requested>>

brVars == <<ctxPerms, httpTable, fdTable, call>>

errVars == <<errLog>>

taskVars == <<taskPc, taskOp, lockHolder>>

envVars == <<envFile, envs, finalEnvs, envPc>>

rawVars == <<raw, rawOp>>

respVars == <<respWire, respClosed, bulk, iter, parsed_pos, status_code, respPc, respEof, sent>>

cfgVars == <<cliOpts, conf, confThen, cfgPc>>

vars == <<rbVars, regVars, permVars, contVars, brVars, errVars, taskVars, envVars, rawVars, respVars, cfgVars>>

(***************************************************************************)
(* Sequences of bytes                                                      *)
(***************************************************************************)
RECURSIVE Flatten(_)
Flatten(ss) == IF ss = <<>> THEN <<>> ELSE Head(ss) \o Flatten(Tail(ss))

Drop(s, n) == SubSeq(s, n + 1, Len(s))

Take(s, n) == SubSeq(s, 1, n)

EOL == <<13, 10>>

(***************************************************************************)
(* httparse::parse_chunk_size, as read_bulks calls it                      *)
(***************************************************************************)
IsDigit(b) == b >= 48 /\ b <= 57
IsLowerHex(b) == b >= 97 /\ b <= 102
IsUpperHex(b) == b >= 65 /\ b <= 70

HexVal(b) == IF IsDigit(b) THEN b - 48
             ELSE IF IsLowerHex(b) THEN b - 97 + 10
             ELSE b - 65 + 10

Partial == [st |-> "Partial", pos |-> 0, len |-> 0]
Invalid == [st |-> "Err", pos |-> 0, len |-> 0]
Complete(p, n) == [st |-> "Complete", pos |-> p, len |-> n]

\* The scanning loop: i is the index of the next byte, size the value so far,
\* inSize / inExt the two mode flags, count the number of digits consumed.
RECURSIVE ChunkSizeLoop(_, _, _, _, _, _)
ChunkSizeLoop(buf, i, size, inSize, inExt, count) ==
    IF i > Len(buf) THEN Partial
    ELSE LET b == buf[i] IN
         IF inSize /\ (IsDigit(b) \/ IsLowerHex(b) \/ IsUpperHex(b))
         THEN IF count > 15 THEN Invalid
              ELSE ChunkSizeLoop(buf, i + 1, size * 16 + HexVal(b), inSize, inExt, count + 1)
         ELSE IF b = 13
         THEN IF i + 1 > Len(buf) THEN Partial
              ELSE IF buf[i + 1] = 10 THEN Complete(i + 1, size)
              ELSE Invalid
         ELSE IF b = 59 /\ ~inExt
         THEN ChunkSizeLoop(buf, i + 1, size, FALSE, TRUE, count)
         ELSE IF (b = 9 \/ b = 32) /\ ~inExt /\ ~inSize
         THEN ChunkSizeLoop(buf, i + 1, size, inSize, inExt, count)
         ELSE IF (b = 9 \/ b = 32) /\ inSize
         THEN ChunkSizeLoop(buf, i + 1, size, FALSE, inExt, count)
         ELSE IF inExt
         THEN ChunkSizeLoop(buf, i + 1, size, inSize, inExt, count)
         ELSE Invalid

parse_chunk_size(buf) == ChunkSizeLoop(buf, 1, 0, TRUE, FALSE, 0)

(***************************************************************************)
(* The peer: chunked transfer encoding of a list of payloads               *)
(***************************************************************************)
MaxChunks == 2
MaxChunkLen == 2

\* Payload bytes: '0' (a hex digit), CR and LF, the bytes a decoder could
\* mistake for framing.
PayloadBytes == {48, 13, 10}

RECURSIVE HexDigits(_)
HexDigits(n) ==
    LET d == n % 16
        c == IF d < 10 THEN 48 + d ELSE 97 + d - 10
    IN IF n < 16 THEN <<c>> ELSE Append(HexDigits(n \div 16), c)

EncodeChunk(p) == HexDigits(Len(p)) \o EOL \o p \o EOL

RECURSIVE EncodeChunks(_)
EncodeChunks(ps) ==
    IF ps = <<>> THEN <<48>> \o EOL \o EOL
    ELSE EncodeChunk(Head(ps)) \o EncodeChunks(Tail(ps))

SeqsUpTo(S, n) == UNION {[1..k -> S] : k \in 0..n}

Payloads == SeqsUpTo(PayloadBytes, MaxChunkLen) \ {<<>>}

\* "Wiki", "pedia"
Wikipedia == << <<87, 105, 107, 105>>, <<112, 101, 100, 105, 97>> >>

PayloadLists == SeqsUpTo(Payloads, MaxChunks) \cup {Wikipedia}

\* Bodies that are not a complete chunked body: a size line that is not
\* hexadecimal ("g\r\n"), a CR not followed by LF ("1\rx"), a body cut
\* inside the size line ("4\r") and one cut inside the payload ("2\r\n0").
MalformedStreams == { <<103, 13, 10>>, <<49, 13, 120>>, <<52, 13>>, <<50, 13, 10, 48>> }

(***************************************************************************)
(* HttpRaw::read_bulks                                                     *)
(***************************************************************************)
ReadBufCap == 1024

Min(a, b) == IF a < b THEN a ELSE b

parsed == parse_chunk_size(body_bulk)

\* The state read_bulks starts in: read_response has split the header block
\* off, and the first k bytes of the body came in with the header's reads.
ReadBulksInit ==
    /\ \/ /\ payloads \in PayloadLists
          /\ stream = EncodeChunks(payloads)
          /\ valid = TRUE
       \/ /\ payloads = <<>>
          /\ stream \in MalformedStreams
          /\ valid = FALSE
    /\ \E k \in 0..Len(stream) :
          /\ body_bulk = Take(stream, k)
          /\ wire = Drop(stream, k)
    /\ closed \in BOOLEAN
    /\ chunks = <<>>
    /\ rpc = "loop"
    /\ ioFailed = FALSE
    /\ reads = FALSE

\* The state read_bulks starts in when the reads of the header phase have
\* brought in the whole of a well-formed body; a malformed body may have
\* come in to any extent
ReadBulksBufferedInit ==
    /\ \/ /\ payloads \in PayloadLists
          /\ stream = EncodeChunks(payloads)
          /\ valid = TRUE
          /\ body_bulk = stream
          /\ wire = <<>>
       \/ /\ payloads = <<>>
          /\ stream \in MalformedStreams
          /\ valid = FALSE
          /\ \E k \in 0..Len(stream) :
                /\ body_bulk = Take(stream, k)
                /\ wire = Drop(stream, k)
    /\ closed \in BOOLEAN
    /\ chunks = <<>>
    /\ rpc = "loop"
    /\ ioFailed = FALSE
    /\ reads = FALSE

\* Status::Partial, and read_buf delivers n >= 1 bytes
ReadBulksRead ==
    /\ rpc = "loop"
    /\ parsed.st = "Partial"
    /\ \E n \in 1..Min(Len(wire), ReadBufCap) :
          /\ body_bulk' = body_bulk \o Take(wire, n)
          /\ wire' = Drop(wire, n)
    /\ reads' = TRUE
    /\ UNCHANGED <<closed, chunks, rpc, ioFailed, stream, payloads, valid>>

\* Status::Partial, and read_buf returns Ok(0): the peer has closed. The
\* loop continues with the buffer as it was.
ReadBulksEof ==
    /\ rpc = "loop"
    /\ parsed.st = "Partial"
    /\ wire = <<>>
    /\ closed
    /\ reads' = TRUE
    /\ UNCHANGED <<wire, closed, body_bulk, chunks, rpc, ioFailed, stream, payloads, valid>>

\* Status::Partial, and read_buf fails
ReadBulksIoError ==
    /\ rpc = "loop"
    /\ parsed.st = "Partial"
    /\ rpc' = "err"
    /\ ioFailed' = TRUE
    /\ reads' = TRUE
    /\ UNCHANGED <<wire, closed, body_bulk, chunks, stream, payloads, valid>>

\* parse_chunk_size fails
ReadBulksInvalid ==
    /\ rpc = "loop"
    /\ parsed.st = "Err"
    /\ rpc' = "err"
    /\ UNCHANGED <<wire, closed, body_bulk, chunks, ioFailed, reads, stream, payloads, valid>>

\* chunk_len == 0: break
ReadBulksEnd ==
    /\ rpc = "loop"
    /\ parsed.st = "Complete"
    /\ parsed.len = 0
    /\ rpc' = "done"
    /\ UNCHANGED <<wire, closed, body_bulk, chunks, ioFailed, reads, stream, payloads, valid>>

\* What is left of the buffer after split_to(pos), split_to(chunk_len) and
\* the removal of a leading CRLF when two bytes are there and are CRLF.
StripEolKept(rest) == rest

StripEol(rest) == IF Len(rest) >= 2 /\ Take(rest, 2) = EOL THEN Drop(rest, 2) ELSE rest

AfterChunk(buf, pos, len) == StripEol(Drop(buf, pos + len))

\* A chunk whose bytes are all buffered
ReadBulksChunk ==
    /\ rpc = "loop"
    /\ parsed.st = "Complete"
    /\ parsed.len > 0
    /\ parsed.len <= Len(body_bulk) - parsed.pos
    /\ chunks' = Append(chunks, SubSeq(body_bulk, parsed.pos + 1, parsed.pos + parsed.len))
    /\ body_bulk' = AfterChunk(body_bulk, parsed.pos, parsed.len)
    /\ UNCHANGED <<wire, closed, rpc, ioFailed, reads, stream, payloads, valid>>

\* chunk_len > csize: the buffer handed to read_exact is
\* Vec::with_capacity(size), of length 0, so read_exact returns at once
\* without reading; split_to(chunk_len) then panics (out of bounds).
ReadBulksShortChunk ==
    /\ rpc = "loop"
    /\ parsed.st = "Complete"
    /\ parsed.len > 0
    /\ parsed.len > Len(body_bulk) - parsed.pos
    /\ rpc' = "panic"
    /\ body_bulk' = Drop(body_bulk, parsed.pos)
    /\ UNCHANGED <<wire, closed, chunks, ioFailed, reads, stream, payloads, valid>>

\* What read_response returns from the chunks: all.extend(item) for each
all == Flatten(chunks)

(***************************************************************************)
(* Text: ASCII case                                                        *)
(***************************************************************************)
IsUpper(b) == b >= 65 /\ b <= 90

LowerByte(b) == IF IsUpper(b) THEN b + 32 ELSE b

\* str::to_lowercase / str::to_ascii_lowercase on ASCII text
ToLower(s) == [i \in 1..Len(s) |-> LowerByte(s[i])]

StartsWith(s, p) == Len(p) <= Len(s) /\ Take(s, Len(p)) = p

(***************************************************************************)
(* DriverConetxtImpl: the driver registry                                  *)
(***************************************************************************)
MaxInserts == 3

None == [none |-> TRUE]

\* "tcp", "TCP", "Tcp", "http", "HTTP", "s3"
DriverNames == { <<116, 99, 112>>, <<84, 67, 80>>, <<84, 99, 112>>,
                 <<104, 116, 116, 112>>, <<72, 84, 84, 80>>, <<115, 51>> }

\* "ipfs", "S3", "hTTp": schemes no driver is registered under as written
OtherSchemes == { <<105, 112, 102, 115>>, <<83, 51>>, <<104, 84, 84, 112>> }

\* "://h"
UriTail == <<58, 47, 47, 104>>

\* The uris find_driver is called with: every scheme followed by "://h",
\* and two texts the address parser rejects ("" and "h").
Uris == {n \o UriTail : n \in DriverNames \cup OtherSchemes} \cup {<<>>, <<104>>}

\* multiaddr::parse(uri) then addr.schema(): the text before the first ':';
\* an error when there is no ':' or nothing before it.
ColonAt(uri) == {i \in 1..Len(uri) : uri[i] = 58}

FirstColon(uri) == CHOOSE i \in ColonAt(uri) : \A j \in ColonAt(uri) : i <= j

SchemaOk(uri) == ColonAt(uri) # {} /\ FirstColon(uri) > 1

Schema(uri) == Take(uri, FirstColon(uri) - 1)

\* A driver value: the instance (one per insert_driver call) and its name()
Driver(id, name) == [id |-> id, name |-> name]

\* DriverConetxtImpl::insert_driver, keeping whatever is registered under
\* the key already
insert_driver_keep_first(drv, d) ==
    LET key == ToLower(d.name) IN
    IF key \in DOMAIN drv THEN drv
    ELSE [k \in DOMAIN drv \cup {key} |-> IF k = key THEN d ELSE drv[k]]

\* DriverConetxtImpl::insert_driver with the name as the key, as written
insert_driver_verbatim(drv, d) ==
    [k \in DOMAIN drv \cup {d.name} |-> IF k = d.name THEN d ELSE drv[k]]

\* DriverConetxtImpl::insert_driver
insert_driver(drv, d) ==
    LET key == ToLower(d.name) IN
    [k \in DOMAIN drv \cup {key} |-> IF k = key THEN d ELSE drv[k]]

\* DriverConetxtImpl::find_driver
find_driver(drv, uri) ==
    IF ~SchemaOk(uri) THEN None
    ELSE LET schema == ToLower(Schema(uri)) IN
         IF schema \in DOMAIN drv THEN drv[schema] ELSE None

RegistryInit ==
    /\ drivers = <<>>
    /\ inserted = <<>>
    /\ lastUri = <<>>
    /\ lastFound = None

\* DriverConetxt::insert_driver: lock, insert, unlock
InsertDriver ==
    /\ Len(inserted) < MaxInserts
    /\ \E name \in DriverNames :
          LET d == Driver(Len(inserted) + 1, name) IN
          /\ drivers' = insert_driver(drivers, d)
          /\ inserted' = Append(inserted, d)
    /\ UNCHANGED <<lastUri, lastFound>>

\* DriverConetxt::find_driver: lock, look up, unlock
FindDriver ==
    /\ \E uri \in Uris :
          /\ lastUri' = uri
          /\ lastFound' = find_driver(drivers, uri)
    /\ UNCHANGED <<drivers, inserted>>

(***************************************************************************)
(* Permission: the url-prefix capability                                   *)
(***************************************************************************)
MaxPrefixLen == 3
MaxUrlLen == 4

\* 'a', 'A', ':' and '.'
UrlBytes == {97, 65, 58, 46}

\* "http://example.com", "http://example.com/path",
\* "http://example.com.evil.com", "HTTP://Example.com/Path"
ExampleCom == <<104, 116, 116, 112, 58, 47, 47, 101, 120, 97, 109, 112, 108, 101, 46, 99, 111, 109>>

ExampleComPath == ExampleCom \o <<47, 112, 97, 116, 104>>

ExampleComEvil == ExampleCom \o <<46, 101, 118, 105, 108, 46, 99, 111, 109>>

ExampleComUpper == <<72, 84, 84, 80, 58, 47, 47, 69, 120, 97, 109, 112, 108, 101, 46, 99, 111, 109, 47, 80, 97, 116, 104>>

\* "http://Example.com"
ExampleComMixed == <<104, 116, 116, 112, 58, 47, 47, 69, 120, 97, 109, 112, 108, 101, 46, 99, 111, 109>>

PermissionArgs == SeqsUpTo(UrlBytes, MaxPrefixLen) \cup {ExampleCom, ExampleComMixed}

CandidateUrls ==
    SeqsUpTo(UrlBytes, MaxUrlLen)
        \cup {ExampleCom, ExampleComPath, ExampleComEvil, ExampleComUpper}

IsAlpha(b) == (b >= 65 /\ b <= 90) \/ (b >= 97 /\ b <= 122)

\* Url::from_str accepts a text only if it starts with a scheme: a letter,
\* then letters, digits, '+', '-' or '.', then ':'.
IsSchemeByte(b) == IsAlpha(b) \/ IsDigit(b) \/ b = 43 \/ b = 45 \/ b = 46

UrlParses(s) ==
    /\ SchemaOk(s)
    /\ IsAlpha(s[1])
    /\ \A i \in 1..(FirstColon(s) - 1) : IsSchemeByte(s[i])

\* Url::scheme(): the scheme, which the parser lowercases
UrlScheme(s) == ToLower(Schema(s))

\* parse_permission: the url field is the argument as written
parse_permission(permsion) ==
    IF UrlParses(permsion)
    THEN [schema |-> UrlScheme(permsion), url |-> permsion]
    ELSE None

\* Permission::is_permision that matches only at a boundary of the url's
\* structure: the prefix must end where the url ends or where a path starts
is_permision_structured(p, url) ==
    /\ StartsWith(ToLower(url), p.url)
    /\ (Len(url) = Len(p.url) \/ url[Len(p.url) + 1] = 47)

\* Permission::is_permision
is_permision(p, url) == StartsWith(ToLower(url), p.url)

PermissionInit ==
    /\ permArg \in PermissionArgs
    /\ candUrl \in CandidateUrls
    /\ perm = None
    /\ permitted = FALSE
    /\ ppc = "start"

PermissionIdle ==
    /\ permArg = <<>>
    /\ candUrl = <<>>
    /\ perm = None
    /\ permitted = FALSE
    /\ ppc = "idle"

\* The command line is parsed: --permission <permArg>
ParsePermission ==
    /\ ppc = "start"
    /\ perm' = parse_permission(permArg)
    /\ ppc' = IF perm' = None THEN "rejected" ELSE "parsed"
    /\ UNCHANGED <<permArg, candUrl, permitted>>

\* perm.is_permision(candUrl)
IsPermision ==
    /\ ppc = "parsed"
    /\ permitted' = is_permision(perm, candUrl)
    /\ ppc' = "checked"
    /\ UNCHANGED <<permArg, candUrl, perm>>

(***************************************************************************)
(* bls_permissions: the permission state the container wraps               *)
(***************************************************************************)
MaxRevokes == 1

Classes == {"read", "write", "net", "env", "run", "sys", "ffi"}

\* The descriptors of a class: two paths, hosts, variables, ...
Descs == {"d1", "d2"}

\* One class's state: granted for every descriptor, granted for a list,
\* and the descriptors denied by a deny flag
Unary(g, gl, dl) == [global |-> g, granted |-> gl, denied |-> dl]

NoUnary == Unary(FALSE, {}, {})

AllUnary == Unary(TRUE, {}, {})

\* Permissions::allow_all()
PermsAllowAll == [unary |-> [c \in Classes |-> AllUnary], all |-> TRUE]

\* Permissions with nothing granted
PermsNone == [unary |-> [c \in Classes |-> NoUnary], all |-> FALSE]

\* A PermissionGrant: absent, everything, or a list of descriptors
NoGrant == [g |-> "none", list |-> {}]

GrantAll == [g |-> "all", list |-> {}]

GrantList(l) == [g |-> "list", list |-> l]

UnaryFromGrants(allow, deny) == Unary(allow.g = "all", allow.list, deny.list)

\* The permissions a PermissionsConfig stands for: the allow-all flag
\* overrides every class; otherwise each class has what its flags grant and
\* deny, and a class without a flag has nothing.
PermsFromConfig(cfg) ==
    IF cfg.allow_all THEN PermsAllowAll
    ELSE [unary |-> [c \in Classes |->
                        CASE c = "read" -> UnaryFromGrants(cfg.allow_read, cfg.deny_read)
                          [] c = "write" -> UnaryFromGrants(cfg.allow_write, cfg.deny_write)
                          [] c = "net" -> UnaryFromGrants(cfg.allow_net, cfg.deny_net)
                          [] OTHER -> NoUnary],
          all |-> FALSE]

\* A check of one descriptor: a deny wins, then a grant; no grant is a denial
CheckUnary(u, d) == d \notin u.denied /\ (u.global \/ d \in u.granted)

\* A check of the whole class
CheckAllUnary(u) == u.denied = {} /\ u.global

\* The Option<&str> argument None: the whole class
NoDesc == "none"

\* revoke: of the whole class (d = NoDesc) or of one descriptor
RevokeUnary(u, d) ==
    IF d = NoDesc THEN Unary(FALSE, {}, u.denied)
    ELSE Unary(u.global, u.granted \ {d}, u.denied)

\* A child's request for one class
ArgInherit == [k |-> "inherit", list |-> {}]

ArgGranted == [k |-> "granted", list |-> {}]

ArgNotGranted == [k |-> "not_granted", list |-> {}]

ArgGrantedList(l) == [k |-> "list", list |-> l]

ArgKinds == {ArgInherit, ArgGranted, ArgNotGranted} \cup {ArgGrantedList(l) : l \in SUBSET Descs \ {{}}}

\* The request escalates: it asks for what the parent's class does not grant
Escalates(u, a) ==
    \/ a.k = "granted" /\ ~CheckAllUnary(u)
    \/ a.k = "list" /\ \E d \in a.list : ~CheckUnary(u, d)

\* The child's class when the request does not escalate; the parent's
\* denials always carry over
ChildUnary(u, a) ==
    CASE a.k = "inherit" -> u
      [] a.k = "granted" -> Unary(TRUE, {}, u.denied)
      [] a.k = "not_granted" -> Unary(FALSE, {}, u.denied)
      [] a.k = "list" -> Unary(FALSE, a.list, u.denied)

Err == [err |-> TRUE]

\* BlsPermissionsContainer::create_child_permissions
ChildPermissions(p, arg) ==
    IF \E c \in Classes : Escalates(p.unary[c], arg[c]) THEN Err
    ELSE [unary |-> [c \in Classes |-> ChildUnary(p.unary[c], arg[c])], all |-> p.all]

(***************************************************************************)
(* BlsRuntimePermissionsContainer and the flags it is built from           *)
(***************************************************************************)
NoFlags ==
    [allow_read |-> NoGrant, deny_read |-> NoGrant, allow_write |-> NoGrant,
     deny_write |-> NoGrant, allow_net |-> NoGrant, deny_net |-> NoGrant,
     allow_all |-> FALSE]

\* The command lines: --allow-read / --allow-write with or without the
\* flag, --allow-net absent, bare or with a host, --deny-net absent or with
\* a host, --allow-all or not.
FlagSets ==
    {[allow_read |-> ar, deny_read |-> NoGrant, allow_write |-> aw,
      deny_write |-> NoGrant, allow_net |-> an, deny_net |-> dn, allow_all |-> aa] :
        ar \in {NoGrant, GrantAll}, aw \in {NoGrant, GrantAll},
        an \in {NoGrant, GrantAll, GrantList({"d1"})},
        dn \in {NoGrant, GrantList({"d1"}), GrantList({"d2"})},
        aa \in BOOLEAN}

\* impl Into<PermissionsConfig> for PermissionFlags
IntoPermissionsConfig(f) ==
    [allow_read |-> f.allow_read, deny_read |-> f.deny_read,
     allow_write |-> f.allow_write, deny_write |-> f.deny_write,
     deny_net |-> f.deny_net, allow_net |-> f.allow_net, allow_all |-> f.allow_all]

\* BlsRuntimePermissionsContainer::new
new(perms) == perms

\* BlsRuntimePermissionsContainer::allow_all handing new() permissions in
\* which every class is granted but the allow-all flag is not set
allow_all_without_flag == new([unary |-> [c \in Classes |-> AllUnary], all |-> FALSE])

\* BlsRuntimePermissionsContainer::allow_all
allow_all == new(PermsAllowAll)

\* BlsRuntimePermissionsContainer::create_child_permissions swallowing the
\* error and handing back a container with what was asked for
create_child_permissions_unchecked(p, arg) ==
    [unary |-> [c \in Classes |-> ChildUnary(p.unary[c], arg[c])], all |-> p.all]

\* BlsRuntimePermissionsContainer::create_child_permissions
create_child_permissions(p, arg) == ChildPermissions(p, arg)

\* check_read, check_write, check_net, check_env, check_run, check_sys,
\* check_ffi: each hands the descriptor to the wrapped container's check of
\* its own class
check(p, cls, d) == CheckUnary(p.unary[cls], d)

\* check_read_all, check_write_all, check_run_all, check_env_all, ...
check_all(p, cls) == CheckAllUnary(p.unary[cls])

\* check_was_allow_all_flag_passed
check_was_allow_all_flag_passed(p) == p.all

\* revoke_read, revoke_write, revoke_net, ...: each calls the wrapped
\* container's revoke of its own class
revoke(p, cls, d) == [p EXCEPT !.unary[cls] = RevokeUnary(@, d)]

\* UnaryPermission::request of the wrapped container: what is granted stays
\* granted; what is neither granted nor denied is prompted for, and granted
\* when the prompt is answered with allow
RequestUnary(u, d, allow) ==
    IF d = NoDesc
    THEN IF allow /\ u.denied = {} THEN Unary(TRUE, u.granted, u.denied) ELSE u
    ELSE IF allow /\ d \notin u.denied THEN Unary(u.global, u.granted \cup {d}, u.denied) ELSE u

\* request_read, request_write, request_net, ...: each calls the wrapped
\* container's request of its own class, except request_write, which calls
\* the wrapped container's revoke_write
request(p, cls, d, allow) ==
    IF cls = "write"
    THEN [p EXCEPT !.unary[cls] = RevokeUnary(@, d)]
    ELSE [p EXCEPT !.unary[cls] = RequestUnary(@, d, allow)]

\* The requests a child is derived with: one class asks for something of
\* its own, every other class inherits or every other class gets nothing.
ChildArgs ==
    {[c \in Classes |-> IF c = cls THEN a ELSE base] :
        cls \in Classes, a \in ArgKinds, base \in {ArgInherit, ArgNotGranted}}

ContainerInit ==
    /\ \/ /\ built = "allow_all"
          /\ flags = NoFlags
          /\ parent = allow_all
       \/ /\ built = "config"
          /\ flags \in FlagSets
          /\ parent = new(PermsFromConfig(IntoPermissionsConfig(flags)))
    /\ revokes = 0
    /\ child = None
    /\ childArg = None
    /\ childErr = FALSE
    /\ parentThen = None
    /\ requested = None

ContainerIdle ==
    /\ built = "config"
    /\ flags = NoFlags
    /\ parent = PermsNone
    /\ revokes = 0
    /\ child = None
    /\ childArg = None
    /\ childErr = FALSE
    /\ parentThen = None
    /\ requested = None

\* container.create_child_permissions(arg)
CreateChild ==
    /\ childArg = None
    /\ \E arg \in ChildArgs :
          LET r == create_child_permissions(parent, arg) IN
          /\ childArg' = arg
          /\ childErr' = (r = Err)
          /\ child' = IF r = Err THEN None ELSE r
    /\ parentThen' = parent
    /\ UNCHANGED <<built, flags, parent, revokes, requested>>

\* container.revoke_<class>(path)
Revoke ==
    /\ revokes < MaxRevokes
    /\ \E cls \in Classes, d \in Descs \cup {NoDesc} :
          parent' = revoke(parent, cls, d)
    /\ revokes' = revokes + 1
    /\ UNCHANGED <<built, flags, child, childArg, childErr, parentThen, requested>>

\* container.request_<class>(path); the prompt, if one is made, is answered
\* with allow or not
Request ==
    /\ requested = None
    /\ \E cls \in Classes, d \in Descs \cup {NoDesc}, allow \in BOOLEAN :
          /\ parent' = request(parent, cls, d, allow)
          /\ requested' = [cls |-> cls, desc |-> d, before |-> parent,
                           after |-> request(parent, cls, d, allow)]
    /\ UNCHANGED <<built, flags, revokes, child, childArg, childErr, parentThen>>

(***************************************************************************)
(* The host-call bridge: guest arguments, the drivers behind it            *)
(***************************************************************************)
MaxHandles == 2

\* A guest string argument: a pointer wiggle cannot read as UTF-8, or a text
BadPtr == [ok |-> FALSE, text |-> ""]

Str(t) == [ok |-> TRUE, text |-> t]

\* The urls a guest passes, each with its host; "not a url" does not parse
UrlHosts == [u \in {"http://d1/x", "http://d2/x"} |-> IF u = "http://d1/x" THEN "d1" ELSE "d2"]

GuestUrls == {BadPtr, Str("not a url")} \cup {Str(u) : u \in DOMAIN UrlHosts}

GuestOpts == {BadPtr, Str("{}")}

\* The socket addresses a guest passes, each with its host
AddrHosts == [a \in {"d1:80", "d2:80"} |-> IF a = "d1:80" THEN "d1" ELSE "d2"]

GuestAddrs == {BadPtr} \cup {Str(a) : a \in DOMAIN AddrHosts}

GuestHeads == {BadPtr, Str("Content-Type")}

\* Url::from_str succeeds
UrlFromStrOk(text) == text \in DOMAIN UrlHosts

\* WasiCtx::check_url_permissions: the context's net check of the url's host
check_url_permissions(p, text) == check(p, "net", UrlHosts[text])

\* Events of one host call, in the order they happen
EvCheck(h, ok) == [e |-> "check", host |-> h, ok |-> ok]

EvDriver(h) == [e |-> "http_driver", host |-> h]

EvConnect(h) == [e |-> "connect", host |-> h]

EvBind(h) == [e |-> "bind", host |-> h]

\* http_driver::http_req: connects and sends; on success the session gets
\* the next handle
HttpDriverReq(t, net) ==
    IF net = "ok"
    THEN [ret |-> "Ok", val |-> t.next, table |-> [live |-> t.live \cup {t.next}, next |-> t.next + 1]]
    ELSE [ret |-> "RequestError", val |-> 0, table |-> t]

\* http_driver::http_close: removes the session or reports InvalidHandle
HttpDriverClose(t, h) ==
    IF h \in t.live
    THEN [ret |-> "Ok", val |-> 0, table |-> [t EXCEPT !.live = @ \ {h}]]
    ELSE [ret |-> "InvalidHandle", val |-> 0, table |-> t]

\* http_driver::http_read_head / http_read_body: InvalidHandle for a
\* handle that is not live, else the driver's own outcome
HttpDriverRead(t, h, outcome) ==
    IF h \in t.live
    THEN [ret |-> outcome.ret, val |-> outcome.n, table |-> t]
    ELSE [ret |-> "InvalidHandle", val |-> 0, table |-> t]

\* Table::push: the entry gets the table's next key
TablePush(t) == [val |-> t.next, table |-> [live |-> t.live \cup {t.next}, next |-> t.next + 1]]

\* The result of a host call: the error kind or "Ok", the value returned,
\* the events, and the two tables after it
Result(ret, val, events, ht, ft) ==
    [ret |-> ret, val |-> val, events |-> events, http |-> ht, fds |-> ft]

(***************************************************************************)
(* BlocklessHttp for WasiCtx (wasi/http.rs)                                *)
(***************************************************************************)
\* http_req that asks the driver first and checks the permission after
http_req_check_after_driver(p, ht, ft, url, opts, net) ==
    IF ~url.ok THEN Result("Utf8Error", 0, <<>>, ht, ft)
    ELSE IF ~UrlFromStrOk(url.text) THEN Result("InvalidUrl", 0, <<>>, ht, ft)
    ELSE IF ~opts.ok THEN Result("Utf8Error", 0, <<>>, ht, ft)
    ELSE LET host == UrlHosts[url.text]
             d == HttpDriverReq(ht, net)
             allowed == check_url_permissions(p, url.text) IN
         IF ~allowed
         THEN Result("PermissionDeny", 0, <<EvDriver(host), EvCheck(host, FALSE)>>, d.table, ft)
         ELSE Result(d.ret, d.val, <<EvDriver(host), EvCheck(host, TRUE)>>, d.table, ft)

\* http_req
http_req(p, ht, ft, url, opts, net) ==
    IF ~url.ok THEN Result("Utf8Error", 0, <<>>, ht, ft)
    ELSE IF ~UrlFromStrOk(url.text) THEN Result("InvalidUrl", 0, <<>>, ht, ft)
    ELSE LET host == UrlHosts[url.text] IN
         IF ~check_url_permissions(p, url.text)
         THEN Result("PermissionDeny", 0, <<EvCheck(host, FALSE)>>, ht, ft)
         ELSE IF ~opts.ok THEN Result("Utf8Error", 0, <<EvCheck(host, TRUE)>>, ht, ft)
         ELSE LET d == HttpDriverReq(ht, net) IN
              Result(d.ret, d.val, <<EvCheck(host, TRUE), EvDriver(host)>>, d.table, ft)

\* http_close that reports success without asking the driver
http_close_without_driver(ht, ft, handle) == Result("Ok", 0, <<>>, ht, ft)

\* http_close
http_close(ht, ft, handle) ==
    LET d == HttpDriverClose(ht, handle) IN Result(d.ret, 0, <<>>, d.table, ft)

\* http_read_header: the header name is read from guest memory first; the
\* bytes the driver returns are copied into the guest's buffer
http_read_header(ht, ft, handle, head, outcome, bufOk) ==
    IF ~head.ok THEN Result("Utf8Error", 0, <<>>, ht, ft)
    ELSE LET d == HttpDriverRead(ht, handle, outcome) IN
         IF d.ret # "Ok" THEN Result(d.ret, 0, <<>>, d.table, ft)
         ELSE IF ~bufOk THEN Result("MemoryAccessError", 0, <<>>, d.table, ft)
         ELSE Result("Ok", d.val, <<>>, d.table, ft)

\* http_read_body: the copy happens only when the driver returned bytes
http_read_body(ht, ft, handle, outcome, bufOk) ==
    LET d == HttpDriverRead(ht, handle, outcome) IN
    IF d.ret # "Ok" THEN Result(d.ret, 0, <<>>, d.table, ft)
    ELSE IF d.val > 0 /\ ~bufOk THEN Result("MemoryAccessError", 0, <<>>, d.table, ft)
    ELSE Result("Ok", d.val, <<>>, d.table, ft)

(***************************************************************************)
(* BlocklessSocket for WasiCtx (wasi/socket.rs)                            *)
(***************************************************************************)
\* tcp_connect that pushes an entry for the socket before connecting it
tcp_connect_push_first(p, ht, ft, target, net) ==
    IF ~target.ok THEN Result("ParameterError", 0, <<>>, ht, ft)
    ELSE LET host == AddrHosts[target.text]
             t == TablePush(ft) IN
         IF net # "ok" THEN Result("ConnectRefused", 0, <<EvConnect(host)>>, ht, t.table)
         ELSE Result("Ok", t.val, <<EvConnect(host)>>, ht, t.table)

\* tcp_connect: the address is read, the driver connects, the file is pushed
tcp_connect(p, ht, ft, target, net) ==
    IF ~target.ok THEN Result("ParameterError", 0, <<>>, ht, ft)
    ELSE LET host == AddrHosts[target.text] IN
         IF net # "ok" THEN Result("ConnectRefused", 0, <<EvConnect(host)>>, ht, ft)
         ELSE LET t == TablePush(ft) IN
              Result("Ok", t.val, <<EvConnect(host)>>, ht, t.table)

\* create_tcp_bind_socket: the address is read, the driver binds, the file
\* is pushed
create_tcp_bind_socket(p, ht, ft, bind, net) ==
    IF ~bind.ok THEN Result("ParameterError", 0, <<>>, ht, ft)
    ELSE LET host == AddrHosts[bind.text] IN
         IF net # "ok" THEN Result("ConnectRefused", 0, <<EvBind(host)>>, ht, ft)
         ELSE LET t == TablePush(ft) IN
              Result("Ok", t.val, <<EvBind(host)>>, ht, t.table)

\* From<AddressFamily> for socket2::Domain
DomainOf(family) == IF family \in {"Inet4", "Unspec"} THEN "IPV4" ELSE "IPV6"

\* From<SocketType> for socket2::Type
TypeOf(socket_type) == IF socket_type \in {"Datagram", "Any"} THEN "DGRAM" ELSE "STREAM"

EvSocket(domain, type) == [e |-> "socket", host |-> <<domain, type>>]

\* socket_create: the socket is created, then todo!() panics
socket_create(ht, ft, family, socket_type) ==
    Result("panic", 0, <<EvSocket(DomainOf(family), TypeOf(socket_type))>>, ht, ft)

(***************************************************************************)
(* The bridge's calls                                                      *)
(***************************************************************************)
NoCall == [op |-> "none"]

\* The outcomes of the network and of the driver's reads
NetOutcomes == {"ok", "fail"}

ReadOutcomes ==
    {[ret |-> "Ok", n |-> 0], [ret |-> "Ok", n |-> 1],
     [ret |-> "HeaderNotFound", n |-> 0], [ret |-> "BufferTooSmall", n |-> 0]}

\* The handles a guest passes: issued ones, 0, and one never issued
GuestHandles == 0..(MaxHandles + 1)

\* The context's policies: everything allowed, nothing allowed, and only
\* host d1 allowed
Policies == {PermsAllowAll, PermsNone,
             [PermsNone EXCEPT !.unary["net"] = Unary(FALSE, {"d1"}, {})]}

\* The preopened stdio entries of a context's table
StdioFds == {0, 1, 2}

BridgeInit ==
    /\ ctxPerms \in Policies
    /\ httpTable = [live |-> {}, next |-> 1]
    /\ fdTable = [live |-> StdioFds, next |-> 3]
    /\ call = NoCall

BridgeIdle ==
    /\ ctxPerms = PermsNone
    /\ httpTable = [live |-> {}, next |-> 1]
    /\ fdTable = [live |-> StdioFds, next |-> 3]
    /\ call = NoCall

\* The record kept of a call: what it was given, the tables before it, and
\* its result
Called(op, arg, arg2, r) ==
    [op |-> op, arg |-> arg, arg2 |-> arg2, ret |-> r.ret, val |-> r.val,
     events |-> r.events, httpBefore |-> httpTable, fdBefore |-> fdTable]

\* A host call has panicked: the process makes no further call
Aborted == call # NoCall /\ call.ret = "panic"

Apply(op, arg, arg2, r) ==
    /\ ~Aborted
    /\ r.http.next <= MaxHandles + 1
    /\ r.fds.next <= Cardinality(StdioFds) + MaxHandles
    /\ httpTable' = r.http
    /\ fdTable' = r.fds
    /\ call' = Called(op, arg, arg2, r)
    /\ UNCHANGED ctxPerms

HttpReq ==
    \E url \in GuestUrls, opts \in GuestOpts, net \in NetOutcomes :
        Apply("http_req", url, opts, http_req(ctxPerms, httpTable, fdTable, url, opts, net))

HttpClose ==
    \E h \in GuestHandles :
        Apply("http_close", h, BadPtr, http_close(httpTable, fdTable, h))

HttpReadHeader ==
    \E h \in GuestHandles, head \in GuestHeads, o \in ReadOutcomes, bufOk \in BOOLEAN :
        Apply("http_read_header", h, head, http_read_header(httpTable, fdTable, h, head, o, bufOk))

HttpReadBody ==
    \E h \in GuestHandles, o \in {x \in ReadOutcomes : x.ret = "Ok"}, bufOk \in BOOLEAN :
        Apply("http_read_body", h, BadPtr, http_read_body(httpTable, fdTable, h, o, bufOk))

TcpConnect ==
    \E target \in GuestAddrs, net \in NetOutcomes :
        Apply("tcp_connect", target, BadPtr, tcp_connect(ctxPerms, httpTable, fdTable, target, net))

CreateTcpBindSocket ==
    \E bind \in GuestAddrs, net \in NetOutcomes :
        Apply("create_tcp_bind_socket", bind, BadPtr,
              create_tcp_bind_socket(ctxPerms, httpTable, fdTable, bind, net))

AddressFamilies == {"Inet4", "Inet6", "Unspec"}

SocketTypes == {"Datagram", "Stream", "Any"}

SocketCreate ==
    \E family \in AddressFamilies, socket_type \in SocketTypes :
        Apply("socket_create", family, socket_type,
              socket_create(httpTable, fdTable, family, socket_type))

(***************************************************************************)
(* Error kinds and their numeric codes (wasi/http.rs, error.rs)            *)
(***************************************************************************)
MaxConversions == 2

\* types::HttpError, the enum of the host-call interface, in the order of
\* its variants; a variant's code is its position, counted from 0
HttpError ==
    <<"Success", "InvalidHandle", "MemoryAccessError", "BufferTooSmall",
      "HeaderNotFound", "Utf8Error", "DestinationNotAllowed", "InvalidMethod",
      "InvalidEncoding", "InvalidUrl", "RequestError", "RuntimeError",
      "TooManySessions", "InvalidDriver", "PermissionDeny",
      "HeadersValidationError">>

\* types::HttpError::X as u32
CodeOf(name) == (CHOOSE i \in 1..Len(HttpError) : HttpError[i] = name) - 1

\* enum HttpErrorKind
HttpErrorKind ==
    {"InvalidDriver", "InvalidHandle", "MemoryAccessError", "BufferTooSmall",
     "HeaderNotFound", "Utf8Error", "DestinationNotAllowed", "InvalidMethod",
     "InvalidEncoding", "InvalidUrl", "RequestError", "RuntimeError",
     "TooManySessions", "PermissionDeny"}

\* The constants enum_2_u32! declares: the names the match of From<u32> knows
enum_2_u32 ==
    {"InvalidHandle", "MemoryAccessError", "BufferTooSmall", "HeaderNotFound",
     "Utf8Error", "DestinationNotAllowed", "InvalidMethod", "InvalidEncoding",
     "InvalidUrl", "RequestError", "RuntimeError", "PermissionDeny",
     "TooManySessions"}

\* From<u32> for HttpErrorKind
FromU32(i) ==
    IF \E t \in enum_2_u32 : CodeOf(t) = i
    THEN CHOOSE t \in enum_2_u32 : CodeOf(t) = i
    ELSE "RuntimeError"

\* From<HttpErrorKind> for types::HttpError, as the code it reports
IntoHttpError(e) == CodeOf(e)

\* The u32 values a lower layer hands over: every code of the interface,
\* two past its end, and a large one
ErrorCodes == 0..(Len(HttpError) + 1) \cup {2^16}

ErrorsInit == errLog = <<>>

ErrorsIdle == errLog = <<>>

\* A code arrives, is converted to a kind, and the kind is reported
ConvertCode ==
    /\ Len(errLog) < MaxConversions
    /\ \E i \in ErrorCodes :
          LET e == FromU32(i) IN
          errLog' = Append(errLog, [code |-> i, kind |-> e, reported |-> IntoHttpError(e)])

\* A host call fails with a kind: the kind crosses to the guest as the code
\* of its HttpError, and the code is read back as a kind with From<u32>
ReportKind ==
    /\ Len(errLog) < MaxConversions
    /\ \E k \in HttpErrorKind :
          LET i == IntoHttpError(k) IN
          errLog' = Append(errLog, [sent |-> k, code |-> i, kind |-> FromU32(i),
                                    reported |-> IntoHttpError(FromU32(i))])

(***************************************************************************)
(* DRIVERS: the registry behind its Mutex, called from several tasks       *)
(***************************************************************************)
MaxTasks == 2

Tasks == 1..MaxTasks

\* The mutex is free
NoHolder == 0

\* "tcp://h", "TCP://h" and "h"
TaskUris == {<<116, 99, 112>> \o UriTail, <<84, 67, 80>> \o UriTail, <<104>>}

\* "tcp" and "HTTP"
TaskNames == {<<116, 99, 112>>, <<72, 84, 84, 80>>}

\* The calls a task makes
TaskCalls ==
    {[op |-> "find_driver", arg |-> u] : u \in TaskUris}
        \cup {[op |-> "insert_driver", arg |-> n] : n \in TaskNames}

\* insert_driver calls that were made and have not inserted yet
PendingInserts == {t \in Tasks : taskOp[t] # None /\ taskOp[t].op = "insert_driver"}

TasksInit ==
    /\ taskPc = [t \in Tasks |-> "idle"]
    /\ taskOp = [t \in Tasks |-> None]
    /\ lockHolder = NoHolder

TasksIdle ==
    /\ taskPc = [t \in Tasks |-> "idle"]
    /\ taskOp = [t \in Tasks |-> None]
    /\ lockHolder = NoHolder

\* A task's call may be made: the number of insert_driver calls is bounded
MayCall(c) ==
    c.op = "insert_driver" => Len(inserted) + Cardinality(PendingInserts) < MaxInserts

\* DRIVERS.lock() when the mutex is free: the task holds it
LockFree(t) ==
    /\ taskPc[t] = "idle"
    /\ lockHolder = NoHolder
    /\ \E c \in TaskCalls :
          /\ MayCall(c)
          /\ taskOp' = [taskOp EXCEPT ![t] = c]
    /\ taskPc' = [taskPc EXCEPT ![t] = "inside"]
    /\ lockHolder' = t
    /\ UNCHANGED regVars

\* DRIVERS.lock() when another task holds the mutex: the task waits
LockHeld(t) ==
    /\ taskPc[t] = "idle"
    /\ lockHolder # NoHolder
    /\ \E c \in TaskCalls :
          /\ MayCall(c)
          /\ taskOp' = [taskOp EXCEPT ![t] = c]
    /\ taskPc' = [taskPc EXCEPT ![t] = "blocked"]
    /\ UNCHANGED <<lockHolder, regVars>>

\* A waiting task gets the mutex once it is free
LockWake(t) ==
    /\ taskPc[t] = "blocked"
    /\ lockHolder = NoHolder
    /\ taskPc' = [taskPc EXCEPT ![t] = "inside"]
    /\ lockHolder' = t
    /\ UNCHANGED <<taskOp, regVars>>

\* find_driver, had it handed the driver out with the guard still alive
LockedFindDriverHoldingGuard(t) ==
    /\ taskPc[t] = "inside"
    /\ taskOp[t].op = "find_driver"
    /\ lastUri' = taskOp[t].arg
    /\ lastFound' = find_driver(drivers, taskOp[t].arg)
    /\ taskPc' = [taskPc EXCEPT ![t] =
                     IF find_driver(drivers, taskOp[t].arg) # None THEN "opening" ELSE "idle"]
    /\ taskOp' = [taskOp EXCEPT ![t] = None]
    /\ lockHolder' = IF find_driver(drivers, taskOp[t].arg) # None THEN t ELSE NoHolder
    /\ UNCHANGED <<drivers, inserted>>

\* DriverConetxt::find_driver under the guard; the guard is a local of
\* find_driver and is dropped on return, before the caller has the driver.
\* With a driver in hand the caller goes on to open(), else it is done
LockedFindDriver(t) ==
    /\ taskPc[t] = "inside"
    /\ taskOp[t].op = "find_driver"
    /\ lastUri' = taskOp[t].arg
    /\ lastFound' = find_driver(drivers, taskOp[t].arg)
    /\ taskPc' = [taskPc EXCEPT ![t] =
                     IF find_driver(drivers, taskOp[t].arg) # None THEN "opening" ELSE "idle"]
    /\ taskOp' = [taskOp EXCEPT ![t] = None]
    /\ lockHolder' = NoHolder
    /\ UNCHANGED <<drivers, inserted>>

\* Driver::open: the future the driver returned completes; while it is
\* pending the task is suspended in the resource's I/O
OpenDone(t) ==
    /\ taskPc[t] = "opening"
    /\ taskPc' = [taskPc EXCEPT ![t] = "idle"]
    /\ UNCHANGED <<taskOp, lockHolder, regVars>>

\* DriverConetxt::insert_driver under the guard; the guard is dropped on return
LockedInsertDriver(t) ==
    /\ taskPc[t] = "inside"
    /\ taskOp[t].op = "insert_driver"
    /\ LET d == Driver(Len(inserted) + 1, taskOp[t].arg) IN
          /\ drivers' = insert_driver(drivers, d)
          /\ inserted' = Append(inserted, d)
    /\ taskPc' = [taskPc EXCEPT ![t] = "idle"]
    /\ taskOp' = [taskOp EXCEPT ![t] = None]
    /\ lockHolder' = NoHolder
    /\ UNCHANGED <<lastUri, lastFound>>

(***************************************************************************)
(* CliCommandOpts::load_environment_vars (cli_clap.rs)                     *)
(***************************************************************************)
MaxFileVars == 2
MaxEnvs == 2

\* Variable names: "A", "AB" and "B"
EnvKeys == {<<65>>, <<65, 66>>, <<66>>}

\* Variable values: "x" and "y"
EnvValues == {<<120>>, <<121>>}

\* A (String, String) pair
EnvPairs == {<<k, v>> : k \in EnvKeys, v \in EnvValues}

\* --env-file is not given, or names a path that does not exist
NoEnvFile == [file |-> "none"]

\* dotenvy cannot open the file
Unreadable == [file |-> "unreadable"]

\* The pairs dotenvy yields for a file, in the file's order, repeated keys
\* included
FileVars(vs) == [file |-> "read", vars |-> vs]

\* str::cmp: the byte-wise lexicographic order of two strings
StrLess(a, b) ==
    \E i \in 1..Len(b) :
        /\ \A j \in 1..(i - 1) : j <= Len(a) /\ a[j] = b[j]
        /\ (i > Len(a) \/ (i <= Len(a) /\ a[i] < b[i]))
        /\ i - 1 <= Len(a)

\* Vec::position of the first pair with the key, 0 when there is none
Position(v, key) ==
    IF \E i \in 1..Len(v) : v[i][1] = key
    THEN CHOOSE i \in 1..Len(v) : v[i][1] = key /\ \A j \in 1..(i - 1) : v[j][1] # key
    ELSE 0

\* Vec::remove
Remove(v, i) == [j \in 1..(Len(v) - 1) |-> IF j < i THEN v[j] ELSE v[j + 1]]

\* The loop over --env: the first pair with the same key is removed, the
\* --env pair is pushed
RECURSIVE AddExplicit(_, _)
AddExplicit(final, es) ==
    IF es = <<>> THEN final
    ELSE LET index == Position(final, es[1][1])
             kept == IF index # 0 THEN Remove(final, index) ELSE final IN
         AddExplicit(Append(kept, es[1]), Tail(es))

\* One pair put into a sorted vector after every pair whose key is not greater
InsertSorted(sorted, p) ==
    LET n == Cardinality({i \in 1..Len(sorted) : ~StrLess(p[1], sorted[i][1])}) IN
    [i \in 1..(Len(sorted) + 1) |->
        IF i <= n THEN sorted[i] ELSE IF i = n + 1 THEN p ELSE sorted[i - 1]]

\* sort_by on the keys: a stable sort
RECURSIVE SortByKey(_)
SortByKey(v) ==
    IF v = <<>> THEN <<>>
    ELSE InsertSorted(SortByKey(SubSeq(v, 1, Len(v) - 1)), v[Len(v)])

\* Ok(final_envs)
Loaded(v) == [vars |-> v]

\* load_environment_vars
load_environment_vars(file, es) ==
    IF file = Unreadable THEN Err
    ELSE LET final_envs == IF file = NoEnvFile THEN <<>> ELSE file.vars IN
         Loaded(SortByKey(AddExplicit(final_envs, es)))

EnvInit ==
    /\ envFile \in {NoEnvFile, Unreadable}
                     \cup {FileVars(vs) : vs \in SeqsUpTo(EnvPairs, MaxFileVars)}
    /\ envs \in SeqsUpTo(EnvPairs, MaxEnvs)
    /\ finalEnvs = None
    /\ envPc = "start"

EnvIdle ==
    /\ envFile = NoEnvFile
    /\ envs = <<>>
    /\ finalEnvs = None
    /\ envPc = "idle"

LoadEnvironmentVars ==
    /\ envPc = "start"
    /\ finalEnvs' = load_environment_vars(envFile, envs)
    /\ envPc' = "loaded"
    /\ UNCHANGED <<envFile, envs>>

(***************************************************************************)
(* HttpRaw: building and writing the request (http_raw.rs)                 *)
(***************************************************************************)
MaxHeaders == 2
MaxPayloadLen == 2

\* "HTTP/1.1"
HTTP1 ==
    <<72, 84, 84, 80, 47, 49, 46, 49>>

\* "GET"
Get ==
    <<71, 69, 84>>

\* "POST"
Post ==
    <<80, 79, 83, 84>>

\* "Host"
HostKey ==
    <<72, 111, 115, 116>>

\* "Accept"
AcceptKey ==
    <<65, 99, 99, 101, 112, 116>>

\* "*/*"
AcceptAny ==
    <<42, 47, 42>>

\* "X-Id"
ExtraKey ==
    <<88, 45, 73, 100>>

\* "--"
DashDash ==
    <<45, 45>>

\* "Content-Disposition: form-data"
ContentDisposition ==
    <<67, 111, 110, 116, 101, 110, 116, 45, 68, 105, 115, 112, 111, 115,
      105, 116, 105, 111, 110, 58, 32, 102, 111, 114, 109, 45, 100, 97,
      116, 97>>

\* "Content-Type: application/octet-stream"
ContentTypeOctets ==
    <<67, 111, 110, 116, 101, 110, 116, 45, 84, 121, 112, 101, 58, 32, 97,
      112, 112, 108, 105, 99, 97, 116, 105, 111, 110, 47, 111, 99, 116,
      101, 116, 45, 115, 116, 114, 101, 97, 109>>

\* "Content-Length: "
ContentLength ==
    <<67, 111, 110, 116, 101, 110, 116, 45, 76, 101, 110, 103, 116, 104,
      58, 32>>

\* "Content-Type: multipart/form-data; boundary="
ContentTypeMultipart ==
    <<67, 111, 110, 116, 101, 110, 116, 45, 84, 121, 112, 101, 58, 32, 109,
      117, 108, 116, 105, 112, 97, 114, 116, 47, 102, 111, 114, 109, 45,
      100, 97, 116, 97, 59, 32, 98, 111, 117, 110, 100, 97, 114, 121, 61>>

\* Option::Some
Some(v) == [some |-> v]

\* format!("{}", n) of an unsigned number: its decimal digits
RECURSIVE Decimal(_)
Decimal(n) == IF n < 10 THEN <<48 + n>> ELSE Decimal(n \div 10) \o <<48 + (n % 10)>>

\* The urls a session is made from, as the Url accessors describe them:
\* host_str(), port_or_known_default(), path(), query(), and whether
\* socket_addrs() yields an address.
\*   "http://h/p", "http://h:8080/p?q", "ipfs://h/p", "data:p"
SessionUrls ==
    { [host_str |-> Some(<<104>>), port |-> Some(80), path |-> <<47, 112>>,
       query |-> None, resolves |-> TRUE],
      [host_str |-> Some(<<104>>), port |-> Some(8080), path |-> <<47, 112>>,
       query |-> Some(<<113>>), resolves |-> TRUE],
      [host_str |-> Some(<<104>>), port |-> None, path |-> <<47, 112>>,
       query |-> None, resolves |-> TRUE],
      [host_str |-> None, port |-> None, path |-> <<112>>,
       query |-> None, resolves |-> FALSE] }

\* The header names and values a caller inserts: "Host" and "X-Id"; "a", "b"
CallerKeys == {HostKey, ExtraKey}

CallerValues == {<<97>>, <<98>>}

\* The boundary a caller sets: "b1"
Boundaries == {Some(<<98, 49>>)}

\* The payloads a caller uploads: "x" and CR in every order
UploadBytes == {120, 13}

Uploads == SeqsUpTo(UploadBytes, MaxPayloadLen)

\* HttpRaw::from_url
from_url(url) ==
    [url |-> url, method |-> Get, boundary |-> None, header |-> <<>>, tcp_stream |-> FALSE]

\* HttpRaw::insert_header: the value is appended to the key's values
insert_header(h, key, value) ==
    [k \in DOMAIN h \cup {key} |->
        IF k = key THEN (IF key \in DOMAIN h THEN Append(h[key], value) ELSE <<value>>)
        ELSE h[k]]

\* The number of values inserted so far
HeaderCount(h) == Cardinality(UNION {{k} \X (1..Len(h[k])) : k \in DOMAIN h})

\* header_raw: the map of headers that is written: Host (when the url has a
\* host) and Accept, then extended with, and so overridden by, the caller's
HeaderMap(r) ==
    LET host == IF r.url.port = None THEN r.url.host_str.some
                ELSE r.url.host_str.some \o <<58>> \o Decimal(r.url.port.some)
        defaults == IF r.url.host_str = None THEN {AcceptKey} ELSE {HostKey, AcceptKey} IN
    [k \in defaults \cup DOMAIN r.header |->
        IF k \in DOMAIN r.header THEN r.header[k]
        ELSE IF k = HostKey THEN <<host>> ELSE <<AcceptAny>>]

\* The orders a HashMap of these keys may be iterated in: every one
Orders(S) ==
    {o \in [1..Cardinality(S) -> S] : \A i, j \in 1..Cardinality(S) : o[i] = o[j] => i = j}

\* "key: value" CRLF
HeaderLine(k, v) == k \o <<58, 32>> \o v \o EOL

\* header_raw, for the order the map is iterated in
header_raw(r, order) ==
    LET headers == HeaderMap(r) IN
    Flatten([n \in 1..Len(order) |->
                Flatten([i \in 1..Len(headers[order[n]]) |->
                            HeaderLine(order[n], headers[order[n]][i])])])

\* get_req_raw
get_req_raw(r, order) ==
    r.method \o <<32>> \o r.url.path
        \o (IF r.url.query = None THEN <<>> ELSE <<63>> \o r.url.query.some)
        \o <<32>> \o HTTP1 \o EOL \o header_raw(r, order)

\* boundary_begin
boundary_begin(boundary) ==
    DashDash \o boundary \o EOL \o ContentDisposition \o EOL
        \o ContentTypeOctets \o EOL \o EOL

\* boundary_end that leaves out the closing "--"
boundary_end_unclosed(boundary) == EOL \o DashDash \o boundary \o EOL

\* boundary_end
boundary_end(boundary) == EOL \o DashDash \o boundary \o DashDash \o EOL

\* The result of a call: the error kind or "Ok", the value, the bytes it
\* wrote to the transport, whether it did any i/o, and the session after it
RawResult(ret, val, wrote, io, r) ==
    [ret |-> ret, val |-> val, wrote |-> wrote, io |-> io, raw |-> r]

\* connect that stores the stream in the session before it writes the request
connect_store_before_write(r, order, net, part) ==
    IF ~r.url.resolves THEN RawResult("InvalidParameter", 0, <<>>, FALSE, r)
    ELSE IF net = "refused" THEN RawResult("RequestError", 0, <<>>, TRUE, r)
    ELSE LET headers == get_req_raw(r, order) IN
         IF net = "write_failed"
         THEN RawResult("RequestError", 0, Take(headers, Min(part, Len(headers))), TRUE,
                        [r EXCEPT !.tcp_stream = TRUE])
         ELSE RawResult("Ok", 0, headers, TRUE, [r EXCEPT !.tcp_stream = TRUE])

\* connect; a failed write may have written any part of the request
connect(r, order, net, part) ==
    IF ~r.url.resolves THEN RawResult("InvalidParameter", 0, <<>>, FALSE, r)
    ELSE IF net = "refused" THEN RawResult("RequestError", 0, <<>>, TRUE, r)
    ELSE LET headers == get_req_raw(r, order) IN
         IF net = "write_failed"
         THEN RawResult("RequestError", 0, Take(headers, Min(part, Len(headers))), TRUE, r)
         ELSE RawResult("Ok", 0, headers, TRUE, [r EXCEPT !.tcp_stream = TRUE])

\* write_boundary that does not look at tcp_stream and boundary first
write_boundary_unguarded(r, val, net, part) ==
    LET boundary == IF r.boundary = None THEN <<>> ELSE r.boundary.some
        body_buf == boundary_begin(boundary) \o val \o boundary_end(boundary)
        buf == ContentLength \o Decimal(Len(body_buf)) \o EOL
                   \o ContentTypeMultipart \o boundary \o EOL \o EOL \o body_buf IN
    IF net # "ok" THEN RawResult("RequestError", 0, Take(buf, Min(part, Len(buf))), TRUE, r)
    ELSE RawResult("Ok", Len(val), buf, TRUE, r)

\* write_boundary
write_boundary(r, val, net, part) ==
    IF ~r.tcp_stream THEN RawResult("RequestError", 0, <<>>, FALSE, r)
    ELSE IF r.boundary = None THEN RawResult("RequestError", 0, <<>>, FALSE, r)
    ELSE LET boundary == r.boundary.some
             body_buf == boundary_begin(boundary) \o val \o boundary_end(boundary)
             buf == ContentLength \o Decimal(Len(body_buf)) \o EOL
                        \o ContentTypeMultipart \o boundary \o EOL \o EOL \o body_buf IN
         IF net # "ok" THEN RawResult("RequestError", 0, Take(buf, Min(part, Len(buf))), TRUE, r)
         ELSE RawResult("Ok", Len(val), buf, TRUE, r)

\* read_response: without a transport it fails at once; with one it reads
\* the head and decodes the body (read_bulks above), here by its outcome
read_response(r, outcome) ==
    IF ~r.tcp_stream THEN RawResult("RequestError", 0, <<>>, FALSE, r)
    ELSE RawResult(outcome, 0, <<>>, TRUE, r)

\* How the network answers a connect or a write
ConnectOutcomes == {"ok", "refused", "write_failed"}

WriteOutcomes == {"ok", "write_failed"}

\* How reading a response on a transport ends
ResponseOutcomes == {"Ok", "RequestError", "panic"}

\* How much of a buffer a failed write has written: nothing, or some bytes
\* (0 stands for a write that did not fail)
WrittenParts == {0, 5}

HttpRawInit ==
    /\ raw \in {from_url(u) : u \in SessionUrls}
    /\ rawOp = NoCall

HttpRawIdle ==
    /\ raw = None
    /\ rawOp = NoCall

\* A call that only changes the session; the record keeps the session it left
RawSet(op, arg, r) ==
    /\ raw' = r
    /\ rawOp' = [op |-> op, arg |-> arg, ret |-> "Ok", val |-> 0, wrote |-> <<>>, io |-> FALSE,
                 before |-> r]

\* A call with a result; the record keeps the session it was made on
RawCall(op, arg, res) ==
    /\ raw' = res.raw
    /\ rawOp' = [op |-> op, arg |-> arg, ret |-> res.ret, val |-> res.val, wrote |-> res.wrote,
                 io |-> res.io, before |-> raw]

\* A call has panicked: no further call is made on the session
RawAborted == rawOp # NoCall /\ rawOp.ret = "panic"

Boundary ==
    /\ ~RawAborted
    /\ \E b \in Boundaries \cup {None} : RawSet("boundary", b, [raw EXCEPT !.boundary = b])

InsertHeader ==
    /\ ~RawAborted
    /\ HeaderCount(raw.header) < MaxHeaders
    /\ \E key \in CallerKeys, value \in CallerValues :
          RawSet("insert_header", <<key, value>>,
                 [raw EXCEPT !.header = insert_header(raw.header, key, value)])

Method ==
    /\ ~RawAborted
    /\ \E m \in {Get, Post} : RawSet("method", m, [raw EXCEPT !.method = m])

Connect ==
    /\ ~RawAborted
    /\ \E order \in Orders(DOMAIN HeaderMap(raw)), net \in ConnectOutcomes, part \in WrittenParts :
          /\ net # "write_failed" => part = 0
          /\ RawCall("connect", order, connect(raw, order, net, part))

WriteBoundary ==
    /\ ~RawAborted
    /\ \E val \in Uploads, net \in WriteOutcomes, part \in WrittenParts :
          /\ net # "write_failed" => part = 0
          /\ RawCall("write_boundary", val, write_boundary(raw, val, net, part))

ReadResponse ==
    /\ ~RawAborted
    /\ \E outcome \in ResponseOutcomes :
          RawCall("read_response", None, read_response(raw, outcome))

(***************************************************************************)
(* HttpRaw::read_response: the header loop (http_raw.rs)                   *)
(***************************************************************************)
MaxHeaderLines == 1

\* `for i in 1..10`: the values of i
FirstIter == 1
LastIter == 9

\* "HTTP/1.1 "
StatusLinePrefix == HTTP1 \o <<32>>

\* " OK\r\n"
ReasonOk == <<32, 79, 75>> \o EOL

\* "A: b\r\n"
ResponseHeaderLine == <<65, 58, 32, 98>> \o EOL

\* The status codes the peer answers with
StatusCodes == {200, 404}

RECURSIVE Repeat(_, _)
Repeat(s, n) == IF n = 0 THEN <<>> ELSE s \o Repeat(s, n - 1)

\* A well-formed header block: status line, header lines, blank line
HeaderBlock(code, lines) ==
    StatusLinePrefix \o Decimal(code) \o ReasonOk \o Repeat(ResponseHeaderLine, lines) \o EOL

\* The body bytes that may follow the header block on the wire: the
\* zero-size chunk and its blank line
EmptyBody == <<48>> \o EOL \o EOL

\* The index just past the first blank line of buf, 0 when buf has none
BlankLineEndAt(buf) ==
    IF \E j \in 4..Len(buf) : SubSeq(buf, j - 3, j) = EOL \o EOL
    THEN CHOOSE j \in 4..Len(buf) :
            /\ SubSeq(buf, j - 3, j) = EOL \o EOL
            /\ \A m \in 4..(j - 1) : SubSeq(buf, m - 3, m) # EOL \o EOL
    ELSE 0

\* The three digits after the version, as a number
CodeIn(buf) ==
    LET p == Len(StatusLinePrefix) IN
    (buf[p + 1] - 48) * 100 + (buf[p + 2] - 48) * 10 + (buf[p + 3] - 48)

\* httparse::Response::parse of the bytes read so far: an error when they
\* cannot begin a response, Partial until the blank line is there, and then
\* Complete with the length of the header block and the status code
ParseResponse(buf) ==
    LET p == Len(StatusLinePrefix) IN
    IF \E j \in 1..Min(Len(buf), p) : buf[j] # StatusLinePrefix[j]
    THEN [st |-> "Err"]
    ELSE IF \E j \in (p + 1)..Min(Len(buf), p + 3) : ~IsDigit(buf[j])
    THEN [st |-> "Err"]
    ELSE IF BlankLineEndAt(buf) = 0
    THEN [st |-> "Partial"]
    ELSE [st |-> "Complete", sized |-> BlankLineEndAt(buf), code |-> CodeIn(buf)]

\* The responses a peer sends
Responses ==
    {[code |-> c, block |-> HeaderBlock(c, n)] : c \in StatusCodes, n \in 0..MaxHeaderLines}

\* read_response is entered on a connected session; the peer sends the
\* whole response, or closes the connection after a part of it
ReadResponseInit ==
    /\ sent \in Responses
    /\ respClosed \in BOOLEAN
    /\ \E k \in 0..Len(sent.block \o EmptyBody) :
          /\ respWire = Take(sent.block \o EmptyBody, k)
          /\ k < Len(sent.block \o EmptyBody) => respClosed
    /\ bulk = <<>>
    /\ iter = FirstIter
    /\ parsed_pos = 0
    /\ status_code = 0
    /\ respPc = "loop"
    /\ respEof = FALSE

ReadResponseIdle ==
    /\ sent = None
    /\ respWire = <<>>
    /\ respClosed = FALSE
    /\ bulk = <<>>
    /\ iter = FirstIter
    /\ parsed_pos = 0
    /\ status_code = 0
    /\ respPc = "idle"
    /\ respEof = FALSE

\* One pass of the loop body once read_buf has put n more bytes in bulk:
\* parse what was read so far, break on Complete, continue on Partial; when
\* the range is exhausted the loop is left as well, with parsed_pos and
\* status_code as they were
HeaderPass(n) ==
    LET read == bulk \o Take(respWire, n)
        parsed_resp == ParseResponse(read) IN
    /\ bulk' = read
    /\ respWire' = Drop(respWire, n)
    /\ IF parsed_resp.st = "Err"
       THEN /\ respPc' = "err"
            /\ UNCHANGED <<iter, parsed_pos, status_code>>
       ELSE IF parsed_resp.st = "Complete"
       THEN /\ respPc' = "body"
            /\ parsed_pos' = parsed_resp.sized
            /\ status_code' = parsed_resp.code
            /\ UNCHANGED iter
       ELSE /\ respPc' = IF iter = LastIter THEN "body" ELSE "loop"
            /\ iter' = IF iter = LastIter THEN iter ELSE iter + 1
            /\ UNCHANGED <<parsed_pos, status_code>>

\* read_buf delivers n >= 1 bytes
HeaderRead ==
    /\ respPc = "loop"
    /\ \E n \in 1..Len(respWire) : HeaderPass(n)
    /\ UNCHANGED <<respClosed, respEof, sent>>

\* read_buf returns Ok(0): the peer has closed
HeaderEof ==
    /\ respPc = "loop"
    /\ respWire = <<>>
    /\ respClosed
    /\ HeaderPass(0)
    /\ respEof' = TRUE
    /\ UNCHANGED <<respClosed, sent>>

\* read_buf fails: Err(RequestError)
HeaderIoError ==
    /\ respPc = "loop"
    /\ respPc' = "err"
    /\ UNCHANGED <<respWire, respClosed, bulk, iter, parsed_pos, status_code, respEof, sent>>

\* bulk.split_off(parsed_pos): the bytes read_bulks is handed
BodyBulk == Drop(bulk, parsed_pos)

(***************************************************************************)
(* CliCommandOpts::into_config (cli_clap.rs)                               *)
(***************************************************************************)
MaxModules == 2

\* --module values: name=path pairs, as parse_module makes them
CliModules ==
    {[module_type |-> "Module", name |-> n, file |-> "/" \o n \o ".wasm", md5 |-> ""] :
        n \in {"m1", "m2"}}

ModuleLists == UNION {[1..k -> CliModules] : k \in 0..MaxModules}

\* --limited-memory and --max_memory_size values
MemorySizes == {1, 2}

\* The command lines: the input file, --module, --entry, --limited-memory,
\* --max_memory_size, and whether the environment variables load
CliCommandOpts ==
    [input : {"test.wasm"},
     modules : ModuleLists,
     entry : {None, Some("run")},
     limited_memory : {None} \cup {Some(m) : m \in MemorySizes},
     max_memory_size : {None} \cup {Some(m) : m \in MemorySizes},
     envs_load : BOOLEAN]

\* BlocklessConfig::new(path): the entry is the path, no module, Version0,
\* no memory limit
BlocklessConfigNew(path) ==
    [entry |-> path, modules |-> <<>>, version |-> "Version0", limited_memory |-> None]

\* BlocklessConfig::limited_memory: the setter of the memory limit
limited_memory(c, m) == [c EXCEPT !.limited_memory = m]

\* BlocklessConfig::set_entry
set_entry(c, e) == [c EXCEPT !.entry = e]

\* BlocklessConfig::set_modules
set_modules(c, ms) == [c EXCEPT !.modules = ms]

\* BlocklessConfig::reset_modules_model_entry: the entry of a configuration
\* with modules is the default "_start"
reset_modules_model_entry(c) == [c EXCEPT !.entry = "_start"]

\* BlocklessConfig::set_version
set_version(c, v) == [c EXCEPT !.version = v]

\* The module into_config makes of the input file
EntryModule(input) == [module_type |-> "Entry", name |-> "", file |-> input, md5 |-> ""]

\* The part of into_config that handles --entry and --module
WithModules(o, c) ==
    LET has_entry == o.entry # None
        c1 == IF has_entry THEN set_entry(c, o.entry.some) ELSE c IN
    IF Len(o.modules) > 0
    THEN LET c2 == set_modules(c1, Append(o.modules, EntryModule(o.input)))
             c3 == IF ~has_entry THEN reset_modules_model_entry(c2) ELSE c2 IN
         set_version(c3, "Version1")
    ELSE c1

\* into_config that appends the input file and sets the version, and leaves
\* the entry alone when --entry is not given
into_config_entry_kept(o, c) ==
    IF ~o.envs_load THEN Err
    ELSE LET c1 == limited_memory(limited_memory(c, o.limited_memory), o.max_memory_size)
             c2 == IF o.entry # None THEN set_entry(c1, o.entry.some) ELSE c1 IN
         IF Len(o.modules) > 0
         THEN [conf |-> set_version(set_modules(c2, Append(o.modules, EntryModule(o.input))),
                                    "Version1")]
         ELSE [conf |-> c2]

\* into_config: Err when the environment variables do not load, else the
\* configuration after every setter was applied
into_config(o, c) ==
    IF ~o.envs_load THEN Err
    ELSE LET c1 == limited_memory(c, o.limited_memory)
             c2 == limited_memory(c1, o.max_memory_size) IN
         [conf |-> WithModules(o, c2)]

IntoConfigInit ==
    /\ cliOpts \in CliCommandOpts
    /\ conf = BlocklessConfigNew("/a.wasm")
    /\ confThen = BlocklessConfigNew("/a.wasm")
    /\ cfgPc = "start"

IntoConfigIdle ==
    /\ cliOpts = None
    /\ conf = BlocklessConfigNew("")
    /\ confThen = BlocklessConfigNew("")
    /\ cfgPc = "idle"

\* cli_opts.into_config(&mut cli_conf)
IntoConfig ==
    /\ cfgPc = "start"
    /\ confThen' = conf
    /\ LET r == into_config(cliOpts, conf) IN
          /\ cfgPc' = IF r = Err THEN "err" ELSE "done"
          /\ conf' = IF r = Err THEN conf ELSE r.conf
    /\ UNCHANGED cliOpts

(***************************************************************************)
(* Specifications                                                          *)
(***************************************************************************)
ReadBulksIdle ==
    /\ wire = <<>>
    /\ closed = FALSE
    /\ body_bulk = <<>>
    /\ chunks = <<>>
    /\ rpc = "idle"
    /\ ioFailed = FALSE
    /\ reads = FALSE
    /\ stream = <<>>
    /\ payloads = <<>>
    /\ valid = FALSE

ReadBulksNext ==
    \/ ReadBulksRead /\ UNCHANGED <<regVars, permVars, contVars, brVars, errVars, taskVars, envVars, rawVars, respVars, cfgVars>>
    \/ ReadBulksEof /\ UNCHANGED <<regVars, permVars, contVars, brVars, errVars, taskVars, envVars, rawVars, respVars, cfgVars>>
    \/ ReadBulksIoError /\ UNCHANGED <<regVars, permVars, contVars, brVars, errVars, taskVars, envVars, rawVars, respVars, cfgVars>>
    \/ ReadBulksInvalid /\ UNCHANGED <<regVars, permVars, contVars, brVars, errVars, taskVars, envVars, rawVars, respVars, cfgVars>>
    \/ ReadBulksEnd /\ UNCHANGED <<regVars, permVars, contVars, brVars, errVars, taskVars, envVars, rawVars, respVars, cfgVars>>
    \/ ReadBulksChunk /\ UNCHANGED <<regVars, permVars, contVars, brVars, errVars, taskVars, envVars, rawVars, respVars, cfgVars>>
    \/ ReadBulksShortChunk /\ UNCHANGED <<regVars, permVars, contVars, brVars, errVars, taskVars, envVars, rawVars, respVars, cfgVars>>

InitHttpRaw == ReadBulksInit /\ RegistryInit /\ PermissionIdle /\ ContainerIdle /\ BridgeIdle /\ ErrorsIdle /\ TasksIdle /\ EnvIdle /\ HttpRawIdle /\ ReadResponseIdle /\ IntoConfigIdle

SpecHttpRaw == InitHttpRaw /\ [][ReadBulksNext]_vars

InitHttpRawBuffered == ReadBulksBufferedInit /\ RegistryInit /\ PermissionIdle /\ ContainerIdle /\ BridgeIdle /\ ErrorsIdle /\ TasksIdle /\ EnvIdle /\ HttpRawIdle /\ ReadResponseIdle /\ IntoConfigIdle

SpecHttpRawBuffered == InitHttpRawBuffered /\ [][ReadBulksNext]_vars

\* The steps read_bulks takes when the transport does not fail
ReadBulksSteps ==
    /\ \/ ReadBulksRead
       \/ ReadBulksEof
       \/ ReadBulksInvalid
       \/ ReadBulksEnd
       \/ ReadBulksChunk
       \/ ReadBulksShortChunk
    /\ UNCHANGED <<regVars, permVars, contVars, brVars, errVars, taskVars, envVars, rawVars, respVars, cfgVars>>

\* The task that runs read_bulks is scheduled for as long as it can step;
\* nothing obliges the transport to fail
SpecHttpRawFair == InitHttpRaw /\ [][ReadBulksNext]_vars /\ WF_vars(ReadBulksSteps)

RegistryNext ==
    \/ InsertDriver /\ UNCHANGED <<rbVars, permVars, contVars, brVars, errVars, taskVars, envVars, rawVars, respVars, cfgVars>>
    \/ FindDriver /\ UNCHANGED <<rbVars, permVars, contVars, brVars, errVars, taskVars, envVars, rawVars, respVars, cfgVars>>

InitRegistry == RegistryInit /\ ReadBulksIdle /\ PermissionIdle /\ ContainerIdle /\ BridgeIdle /\ ErrorsIdle /\ TasksIdle /\ EnvIdle /\ HttpRawIdle /\ ReadResponseIdle /\ IntoConfigIdle

SpecRegistry == InitRegistry /\ [][RegistryNext]_vars

PermissionNext ==
    \/ ParsePermission /\ UNCHANGED <<rbVars, regVars, contVars, brVars, errVars, taskVars, envVars, rawVars, respVars, cfgVars>>
    \/ IsPermision /\ UNCHANGED <<rbVars, regVars, contVars, brVars, errVars, taskVars, envVars, rawVars, respVars, cfgVars>>

InitPermission == PermissionInit /\ ReadBulksIdle /\ RegistryInit /\ ContainerIdle /\ BridgeIdle /\ ErrorsIdle /\ TasksIdle /\ EnvIdle /\ HttpRawIdle /\ ReadResponseIdle /\ IntoConfigIdle

SpecPermission == InitPermission /\ [][PermissionNext]_vars

ContainerNext ==
    \/ CreateChild /\ UNCHANGED <<rbVars, regVars, permVars, brVars, errVars, taskVars, envVars, rawVars, respVars, cfgVars>>
    \/ Revoke /\ UNCHANGED <<rbVars, regVars, permVars, brVars, errVars, taskVars, envVars, rawVars, respVars, cfgVars>>

InitContainer == ContainerInit /\ ReadBulksIdle /\ RegistryInit /\ PermissionIdle /\ BridgeIdle /\ ErrorsIdle /\ TasksIdle /\ EnvIdle /\ HttpRawIdle /\ ReadResponseIdle /\ IntoConfigIdle

SpecContainer == InitContainer /\ [][ContainerNext]_vars

\* The container with the calls that change it in place: revoke_<class>
\* and request_<class>
RequestNext ==
    \/ Revoke /\ UNCHANGED <<rbVars, regVars, permVars, brVars, errVars, taskVars, envVars, rawVars, respVars, cfgVars>>
    \/ Request /\ UNCHANGED <<rbVars, regVars, permVars, brVars, errVars, taskVars, envVars, rawVars, respVars, cfgVars>>

InitRequest == ContainerInit /\ ReadBulksIdle /\ RegistryInit /\ PermissionIdle /\ BridgeIdle /\ ErrorsIdle /\ TasksIdle /\ EnvIdle /\ HttpRawIdle /\ ReadResponseIdle /\ IntoConfigIdle

SpecRequest == InitRequest /\ [][RequestNext]_vars

BridgeNext ==
    \/ HttpReq /\ UNCHANGED <<rbVars, regVars, permVars, contVars, errVars, taskVars, envVars, rawVars, respVars, cfgVars>>
    \/ HttpClose /\ UNCHANGED <<rbVars, regVars, permVars, contVars, errVars, taskVars, envVars, rawVars, respVars, cfgVars>>
    \/ HttpReadHeader /\ UNCHANGED <<rbVars, regVars, permVars, contVars, errVars, taskVars, envVars, rawVars, respVars, cfgVars>>
    \/ HttpReadBody /\ UNCHANGED <<rbVars, regVars, permVars, contVars, errVars, taskVars, envVars, rawVars, respVars, cfgVars>>
    \/ TcpConnect /\ UNCHANGED <<rbVars, regVars, permVars, contVars, errVars, taskVars, envVars, rawVars, respVars, cfgVars>>
    \/ CreateTcpBindSocket /\ UNCHANGED <<rbVars, regVars, permVars, contVars, errVars, taskVars, envVars, rawVars, respVars, cfgVars>>
    \/ SocketCreate /\ UNCHANGED <<rbVars, regVars, permVars, contVars, errVars, taskVars, envVars, rawVars, respVars, cfgVars>>

InitBridge == BridgeInit /\ ReadBulksIdle /\ RegistryInit /\ PermissionIdle /\ ContainerIdle /\ ErrorsIdle /\ TasksIdle /\ EnvIdle /\ HttpRawIdle /\ ReadResponseIdle /\ IntoConfigIdle

SpecBridge == InitBridge /\ [][BridgeNext]_vars

ErrorsNext ==
    \/ ConvertCode /\ UNCHANGED <<rbVars, regVars, permVars, contVars, brVars, taskVars, envVars, rawVars, respVars, cfgVars>>
    \/ ReportKind /\ UNCHANGED <<rbVars, regVars, permVars, contVars, brVars, taskVars, envVars, rawVars, respVars, cfgVars>>

InitErrors == ErrorsInit /\ ReadBulksIdle /\ RegistryInit /\ PermissionIdle /\ ContainerIdle /\ BridgeIdle /\ TasksIdle /\ EnvIdle /\ HttpRawIdle /\ ReadResponseIdle /\ IntoConfigIdle

SpecErrors == InitErrors /\ [][ErrorsNext]_vars

TasksNext ==
    \/ (\E t \in Tasks : LockFree(t)) /\ UNCHANGED <<rbVars, permVars, contVars, brVars, errVars, envVars, rawVars, respVars, cfgVars>>
    \/ (\E t \in Tasks : LockHeld(t)) /\ UNCHANGED <<rbVars, permVars, contVars, brVars, errVars, envVars, rawVars, respVars, cfgVars>>
    \/ (\E t \in Tasks : LockWake(t)) /\ UNCHANGED <<rbVars, permVars, contVars, brVars, errVars, envVars, rawVars, respVars, cfgVars>>
    \/ (\E t \in Tasks : LockedFindDriver(t)) /\ UNCHANGED <<rbVars, permVars, contVars, brVars, errVars, envVars, rawVars, respVars, cfgVars>>
    \/ (\E t \in Tasks : LockedInsertDriver(t)) /\ UNCHANGED <<rbVars, permVars, contVars, brVars, errVars, envVars, rawVars, respVars, cfgVars>>
    \/ (\E t \in Tasks : OpenDone(t)) /\ UNCHANGED <<rbVars, permVars, contVars, brVars, errVars, envVars, rawVars, respVars, cfgVars>>

InitTasks == TasksInit /\ ReadBulksIdle /\ RegistryInit /\ PermissionIdle /\ ContainerIdle /\ BridgeIdle /\ ErrorsIdle /\ EnvIdle /\ HttpRawIdle /\ ReadResponseIdle /\ IntoConfigIdle

SpecTasks == InitTasks /\ [][TasksNext]_vars

EnvNext ==
    \/ LoadEnvironmentVars /\ UNCHANGED <<rbVars, regVars, permVars, contVars, brVars, errVars, taskVars, rawVars, respVars, cfgVars>>

InitEnv == EnvInit /\ ReadBulksIdle /\ RegistryInit /\ PermissionIdle /\ ContainerIdle /\ BridgeIdle /\ ErrorsIdle /\ TasksIdle /\ HttpRawIdle /\ ReadResponseIdle /\ IntoConfigIdle

SpecEnv == InitEnv /\ [][EnvNext]_vars

HttpRawNext ==
    \/ Boundary /\ UNCHANGED <<rbVars, regVars, permVars, contVars, brVars, errVars, taskVars, envVars, respVars, cfgVars>>
    \/ InsertHeader /\ UNCHANGED <<rbVars, regVars, permVars, contVars, brVars, errVars, taskVars, envVars, respVars, cfgVars>>
    \/ Method /\ UNCHANGED <<rbVars, regVars, permVars, contVars, brVars, errVars, taskVars, envVars, respVars, cfgVars>>
    \/ Connect /\ UNCHANGED <<rbVars, regVars, permVars, contVars, brVars, errVars, taskVars, envVars, respVars, cfgVars>>
    \/ WriteBoundary /\ UNCHANGED <<rbVars, regVars, permVars, contVars, brVars, errVars, taskVars, envVars, respVars, cfgVars>>
    \/ ReadResponse /\ UNCHANGED <<rbVars, regVars, permVars, contVars, brVars, errVars, taskVars, envVars, respVars, cfgVars>>

InitSession == HttpRawInit /\ ReadBulksIdle /\ RegistryInit /\ PermissionIdle /\ ContainerIdle /\ BridgeIdle /\ ErrorsIdle /\ TasksIdle /\ EnvIdle /\ ReadResponseIdle /\ IntoConfigIdle

SpecSession == InitSession /\ [][HttpRawNext]_vars

ReadResponseNext ==
    \/ HeaderRead /\ UNCHANGED <<rbVars, regVars, permVars, contVars, brVars, errVars, taskVars, envVars, rawVars, cfgVars>>
    \/ HeaderEof /\ UNCHANGED <<rbVars, regVars, permVars, contVars, brVars, errVars, taskVars, envVars, rawVars, cfgVars>>
    \/ HeaderIoError /\ UNCHANGED <<rbVars, regVars, permVars, contVars, brVars, errVars, taskVars, envVars, rawVars, cfgVars>>

InitReadResponse == ReadBulksIdle /\ RegistryInit /\ PermissionIdle /\ ContainerIdle /\ BridgeIdle /\ ErrorsIdle /\ TasksIdle /\ EnvIdle /\ HttpRawIdle /\ ReadResponseInit /\ IntoConfigIdle

SpecReadResponse == InitReadResponse /\ [][ReadResponseNext]_vars

IntoConfigNext ==
    \/ IntoConfig /\ UNCHANGED <<rbVars, regVars, permVars, contVars, brVars, errVars, taskVars, envVars, rawVars, respVars>>

InitIntoConfig == ReadBulksIdle /\ RegistryInit /\ PermissionIdle /\ ContainerIdle /\ BridgeIdle /\ ErrorsIdle /\ TasksIdle /\ EnvIdle /\ HttpRawIdle /\ ReadResponseIdle /\ IntoConfigInit

SpecIntoConfig == InitIntoConfig /\ [][IntoConfigNext]_vars

(***************************************************************************)
(* Claims                                                                  *)
(***************************************************************************)

(* C1: for every complete, well-formed chunked body and every way the
   transport fragments it, the decoder does not panic, fails only when a
   transport read fails, and on return yields exactly the concatenation of
   the chunk payloads. *)
C1_DecodesEveryFragmentation ==
    valid =>
        /\ rpc # "panic"
        /\ (rpc = "err" => ioFailed)
        /\ (rpc = "done" => all = Flatten(payloads))

\* The calls of insert_driver whose name is a case variant of the scheme s
InsertsFor(s) == {i \in 1..Len(inserted) : ToLower(inserted[i].name) = ToLower(s)}

Latest(I) == CHOOSE i \in I : \A j \in I : j <= i

ParsedUris == {u \in Uris : SchemaOk(u)}

(* C4: find_driver is case-insensitive in the scheme: two uris whose schemes
   differ only in case resolve alike; a uri whose scheme is a case variant
   of a registered driver's name resolves to a driver registered under such
   a name, whatever the case used at registration; a uri whose lowercased
   scheme was never registered, or that does not parse, resolves to None. *)
C4_CaseInsensitiveDispatch ==
    /\ \A u, v \in ParsedUris :
          ToLower(Schema(u)) = ToLower(Schema(v))
              => find_driver(drivers, u) = find_driver(drivers, v)
    /\ \A u \in ParsedUris :
          IF InsertsFor(Schema(u)) = {}
          THEN find_driver(drivers, u) = None
          ELSE find_driver(drivers, u) \in {inserted[i] : i \in InsertsFor(Schema(u))}
    /\ \A u \in Uris \ ParsedUris : find_driver(drivers, u) = None

\* find_driver has resolved a uri to a driver registered under a name
\* written in another case than the uri's scheme
C4_Witness ==
    /\ lastFound # None
    /\ lastFound.name # Schema(lastUri)
    /\ lastFound.name # ToLower(lastFound.name)

(* C5: the registry holds at most one driver per lowercased scheme name
   (every key is lowercase), find_driver returns the most recently
   registered driver whose name equals the scheme case-insensitively, and
   no earlier driver of that name is resolvable by any uri. *)
C5_LastRegistrationWins ==
    /\ \A k \in DOMAIN drivers : k = ToLower(k)
    /\ \A u \in ParsedUris :
          InsertsFor(Schema(u)) # {}
              => find_driver(drivers, u) = inserted[Latest(InsertsFor(Schema(u)))]
    /\ \A i \in 1..Len(inserted) :
          i # Latest(InsertsFor(inserted[i].name))
              => \A u \in Uris : find_driver(drivers, u) # inserted[i]

\* Two drivers were registered under case variants of one name and
\* find_driver has returned the second
C5_Witness ==
    /\ lastFound # None
    /\ Cardinality(InsertsFor(lastFound.name)) >= 2
    /\ lastFound.id = Latest(InsertsFor(lastFound.name))

(* C7: is_permision(url) is true exactly when the url, compared
   case-insensitively, begins with the permission's url prefix, for every
   prefix parse_permission stores, upper-case letters included. *)
C7_CaseInsensitivePrefix ==
    ppc = "checked" => (permitted <=> StartsWith(ToLower(candUrl), ToLower(perm.url)))

(* C8: matching is a raw textual prefix test: a permission whose url prefix
   is lowercase, "http://example.com" among them, matches every url that
   starts with that text, whatever follows it, so "http://example.com/path"
   and also "http://example.com.evil.com", a url of another host. *)
C8_RawPrefixMatch ==
    /\ (ppc = "checked" /\ perm.url = ToLower(perm.url) /\ StartsWith(candUrl, perm.url))
          => permitted
    /\ (ppc = "checked" /\ perm.url = ExampleCom /\ candUrl \in {ExampleComPath, ExampleComEvil})
          => permitted

\* "http://example.com" has been matched against "http://example.com.evil.com"
C8_Witness ==
    /\ ppc = "checked"
    /\ perm.url = ExampleCom
    /\ candUrl = ExampleComEvil
    /\ permitted

\* The container was built with allow-all: by allow_all(), or from flags
\* that hold --allow-all
BuiltAllowAll == built = "allow_all" \/ flags.allow_all

\* The container was built from flags that grant nothing
BuiltWithNoGrant ==
    /\ built = "config"
    /\ ~flags.allow_all
    /\ flags.allow_read = NoGrant
    /\ flags.allow_write = NoGrant
    /\ flags.allow_net = NoGrant

(* C9: a container built with allow-all (and not revoked from since)
   passes every check of every class for every descriptor;
   check_was_allow_all_flag_passed succeeds for a built container exactly
   when it was built with allow-all; a container built with no grant at all
   fails every check of every class. *)
C9_AllowAllAndDefaultDeny ==
    /\ (BuiltAllowAll /\ revokes = 0)
          => \A cls \in Classes : check_all(parent, cls) /\ \A d \in Descs : check(parent, cls, d)
    /\ check_was_allow_all_flag_passed(parent) <=> BuiltAllowAll
    /\ BuiltWithNoGrant
          => \A cls \in Classes : ~check_all(parent, cls) /\ \A d \in Descs : ~check(parent, cls, d)

\* A container built by allow_all() has derived a child
C9_Witness ==
    /\ built = "allow_all"
    /\ revokes = 0
    /\ child # None
    /\ check_was_allow_all_flag_passed(parent)

\* What a request asks for in a class, given the parent it is made to
Asks(u, a, d) ==
    CASE a.k = "inherit" -> CheckUnary(u, d)
      [] a.k = "granted" -> TRUE
      [] a.k = "not_granted" -> FALSE
      [] a.k = "list" -> d \in a.list

(* C10: a child returned by create_child_permissions passes no check, of
   any class and descriptor, that its parent denied when the child was
   derived, and no whole-class check the parent failed then; a request that
   asks, in some class, for a descriptor the parent denies yields an error
   and no container. *)
C10_ChildNeverWider ==
    /\ child # None
          => \A cls \in Classes :
                /\ check_all(child, cls) => check_all(parentThen, cls)
                /\ \A d \in Descs : check(child, cls, d) => check(parentThen, cls, d)
    /\ (childArg # None
          /\ \E cls \in Classes, d \in Descs :
                Asks(parentThen.unary[cls], childArg[cls], d) /\ ~check(parentThen, cls, d))
          => (childErr /\ child = None)
    /\ childErr => child = None

\* A child was derived that is strictly narrower than its parent and still
\* passes some check
C10_Witness ==
    /\ child # None
    /\ \E cls \in Classes, d \in Descs : check(parentThen, cls, d) /\ ~check(child, cls, d)
    /\ \E cls \in Classes, d \in Descs : check(child, cls, d)

\* The events of the latest call that start outbound or inbound i/o
IsIo(ev) == ev.e \in {"http_driver", "connect", "bind"}

\* Event i of the latest call comes after a successful permission check of
\* the same host in that call
CheckedBefore(i) ==
    \E j \in 1..(i - 1) : call.events[j] = EvCheck(call.events[i].host, TRUE)

\* The latest call was http_req with a url that reached the permission
\* check and was denied by it
DeniedHttpReq ==
    /\ call.op = "http_req"
    /\ call.arg.ok
    /\ UrlFromStrOk(call.arg.text)
    /\ ~check_url_permissions(ctxPerms, call.arg.text)

(* C2: an http_req whose url the permission check denies returns
   PermissionDeny, whatever its options argument, and in that call the http
   driver is not invoked: no i/o event, no handle allocated, both tables as
   they were; and whenever the driver is invoked, a successful check of the
   same host came before it in the call. *)
C2_DeniedHttpReqDoesNoIo ==
    /\ DeniedHttpReq
          => /\ call.ret = "PermissionDeny"
             /\ \A i \in 1..Len(call.events) : ~IsIo(call.events[i])
             /\ httpTable = call.httpBefore
             /\ fdTable = call.fdBefore
    /\ call.op = "http_req"
          => \A i \in 1..Len(call.events) :
                call.events[i].e = "http_driver" => CheckedBefore(i)

\* A denied http_req was made with valid options under a policy that
\* allows another host
C2_Witness ==
    /\ DeniedHttpReq
    /\ call.arg2.ok
    /\ call.ret = "PermissionDeny"
    /\ check(ctxPerms, "net", "d1")

(* C3: in every call of http_req, tcp_connect and create_tcp_bind_socket
   each socket connect or bind comes after a successful permission check of
   the same target; under the policy that denies all network access no
   handle is ever in either table beyond the preopened ones. *)
C3_CheckBeforeEverySocket ==
    /\ call.op \in {"http_req", "tcp_connect", "create_tcp_bind_socket"}
          => \A i \in 1..Len(call.events) : IsIo(call.events[i]) => CheckedBefore(i)
    /\ ctxPerms = PermsNone
          => httpTable.live = {} /\ fdTable.live = StdioFds

\* The operations that open a resource and those that work on an http handle
OpenOps == {"http_req", "tcp_connect", "create_tcp_bind_socket"}

HandleOps == {"http_close", "http_read_header", "http_read_body"}

\* The table an operation allocates in, before the latest call
LiveBefore == IF call.op = "http_req" THEN call.httpBefore.live ELSE call.fdBefore.live

LiveNow == IF call.op = "http_req" THEN httpTable.live ELSE fdTable.live

\* The handle given to the latest call was not live: closed or never issued
OnDeadHandle == call.op \in HandleOps /\ call.arg \notin call.httpBefore.live

(* C6, as claimed: a successful open returns a handle not live in its table;
   http_close removes the handle; http_read_header, http_read_body and
   http_close on a handle that is closed or was never issued fail with
   InvalidHandle and change no handle. *)
C6_DeadHandleIsInvalidHandle ==
    /\ (call.op \in OpenOps /\ call.ret = "Ok")
          => (call.val \notin LiveBefore /\ LiveNow = LiveBefore \cup {call.val})
    /\ (call.op = "http_close" /\ call.ret = "Ok")
          => (call.arg \in call.httpBefore.live
              /\ httpTable.live = call.httpBefore.live \ {call.arg})
    /\ OnDeadHandle
          => (call.ret = "InvalidHandle"
              /\ httpTable = call.httpBefore /\ fdTable = call.fdBefore)

(* C6, amended: as above, except that http_read_header validates its
   header-name argument first: on a dead handle it fails with Utf8Error
   when that argument is unreadable and with InvalidHandle otherwise. *)
C6_HandleLifecycle ==
    /\ (call.op \in OpenOps /\ call.ret = "Ok")
          => (call.val \notin LiveBefore /\ LiveNow = LiveBefore \cup {call.val})
    /\ (call.op = "http_close" /\ call.ret = "Ok")
          => (call.arg \in call.httpBefore.live
              /\ httpTable.live = call.httpBefore.live \ {call.arg})
    /\ OnDeadHandle
          => (/\ call.ret = (IF call.op = "http_read_header" /\ ~call.arg2.ok
                             THEN "Utf8Error" ELSE "InvalidHandle")
              /\ httpTable = call.httpBefore /\ fdTable = call.fdBefore)

\* A handle that was issued and closed is read from, while another handle
\* is live
C6_Witness ==
    /\ call.op = "http_read_body"
    /\ call.arg \in 1..(httpTable.next - 1)
    /\ call.arg \notin httpTable.live
    /\ httpTable.live # {}
    /\ call.ret = "InvalidHandle"

(* C16: a tcp_connect whose connection fails returns ConnectRefused, does
   not panic and leaves the context's table as it was; a successful one
   adds exactly one entry to the table and returns that entry's key. *)
C16_ConnectRefusedPushesNothing ==
    call.op = "tcp_connect" =>
        /\ call.ret \in {"Ok", "ConnectRefused", "ParameterError"}
        /\ (call.arg.ok /\ call.ret # "Ok")
              => (call.ret = "ConnectRefused" /\ fdTable = call.fdBefore)
        /\ call.ret = "Ok"
              => (/\ call.val \notin call.fdBefore.live
                  /\ fdTable.live = call.fdBefore.live \cup {call.val}
                  /\ Cardinality(fdTable.live) = Cardinality(call.fdBefore.live) + 1)
        /\ httpTable = call.httpBefore

\* A connection was refused after an earlier one had succeeded
C16_Witness ==
    /\ call.op = "tcp_connect"
    /\ call.ret = "ConnectRefused"
    /\ fdTable.live # StdioFds

(* C17: socket_create returns, for every family and type, a handle that is
   in the context's table or a socket error kind; it does not panic. *)
C17_SocketCreateReturns ==
    call.op = "socket_create" =>
        /\ call.ret # "panic"
        /\ call.ret = "Ok" => call.val \in fdTable.live

\* The codes of the interface's variants
KnownCodes == {CodeOf(HttpError[i]) : i \in 1..Len(HttpError)}

(* C18: the conversion of a numeric code into HttpErrorKind yields a kind
   for every code; a code that is not a code of HttpError yields
   RuntimeError; the code of an HttpError variant that HttpErrorKind has
   under the same name yields that kind. *)
C18_CodeToKindByName ==
    \A n \in 1..Len(errLog) :
        LET c == errLog[n] IN
        /\ c.kind \in HttpErrorKind
        /\ c.code \notin KnownCodes => c.kind = "RuntimeError"
        /\ \A t \in HttpErrorKind : c.code = CodeOf(t) => c.kind = t

(* C19: concurrent find_driver calls do not block each other: no task's
   find_driver waits for the registry while the task that is inside the
   registry is itself making a find_driver call. *)
C19_ResolvesDoNotBlock ==
    \A t, u \in Tasks :
        ~(/\ taskPc[t] = "blocked"
          /\ taskOp[t].op = "find_driver"
          /\ lockHolder = u
          /\ taskOp[u].op = "find_driver")

\* The keys given with --env, and the last value given for one of them
EnvKeysGiven == {envs[i][1] : i \in 1..Len(envs)}

LastEnvValue(k) ==
    envs[CHOOSE i \in 1..Len(envs) : envs[i][1] = k /\ \A j \in (i + 1)..Len(envs) : envs[j][1] # k][2]

\* The pairs of the file, none for no file
FilePairs == IF envFile.file = "read" THEN envFile.vars ELSE <<>>

(* C20: when load_environment_vars returns the merged list, it holds, for
   every key given with --env, exactly one pair of that key and that pair
   carries the last --env value of the key, whatever the env file holds; the
   pairs of a key only the file holds are the file's pairs of that key; and
   the list is in ascending order of the keys. *)
C20_ExplicitEnvWins ==
    (envPc = "loaded" /\ finalEnvs # Err) =>
        LET final == finalEnvs.vars IN
        /\ \A k \in EnvKeysGiven :
              /\ Cardinality({i \in 1..Len(final) : final[i][1] = k}) = 1
              /\ \A i \in 1..Len(final) : final[i][1] = k => final[i][2] = LastEnvValue(k)
        /\ \A k \in EnvKeys \ EnvKeysGiven :
              SelectSeq(final, LAMBDA p : p[1] = k) = SelectSeq(FilePairs, LAMBDA p : p[1] = k)
        /\ \A i, j \in 1..Len(final) : i < j => ~StrLess(final[j][1], final[i][1])

(* C15: whatever the peer sends and however the transport fails, the
   decoder never panics, a chunk whose declared size exceeds the bytes
   buffered so far included; it returns Ok only for a complete, well-formed
   body and then with exactly that body's payloads; and a transport read
   error makes it return the error. *)
C15_ErrorsNeverPanicNorTruncate ==
    /\ rpc # "panic"
    /\ rpc = "done" => (valid /\ ~ioFailed /\ all = Flatten(payloads))
    /\ ioFailed => rpc = "err"

\* The latest call was a connect that succeeded
Connected == rawOp.op = "connect" /\ rawOp.ret = "Ok"

\* The request line of the session the latest call was made on
RequestLine ==
    LET r == rawOp.before IN
    r.method \o <<32>> \o r.url.path
        \o (IF r.url.query = None THEN <<>> ELSE <<63>> \o r.url.query.some)
        \o <<32>> \o <<72, 84, 84, 80, 47, 49, 46, 49>> \o <<13, 10>>

\* The last n bytes of w
LastBytes(w, n) == SubSeq(w, Len(w) - n + 1, Len(w))

(* C11: the bytes a successful connect writes are the request line (method,
   space, path, '?' and the query when there is one, space, HTTP/1.1, CRLF),
   then the header lines, then a blank line: they end with CRLF CRLF. *)
C11_RequestEndsWithBlankLine ==
    Connected =>
        /\ Len(rawOp.wrote) >= Len(RequestLine) + 4
        /\ SubSeq(rawOp.wrote, 1, Len(RequestLine)) = RequestLine
        /\ LastBytes(rawOp.wrote, 4) = <<13, 10, 13, 10>>

\* The header lines a caller's headers make, keys in the given order
CallerLines(h, order) ==
    Flatten([n \in 1..Len(order) |->
                Flatten([i \in 1..Len(h[order[n]]) |->
                            order[n] \o <<58, 32>> \o h[order[n]][i] \o <<13, 10>>])])

\* "Host: " host ":" port CRLF "Accept: */*" CRLF for the session the latest
\* call was made on
HostThenAccept ==
    LET u == rawOp.before.url IN
    <<72, 111, 115, 116, 58, 32>> \o u.host_str.some \o <<58>> \o Decimal(u.port.some)
        \o <<13, 10>> \o <<65, 99, 99, 101, 112, 116, 58, 32, 42, 47, 42, 13, 10>>

(* C12: in the header block a successful connect writes for a url with an
   explicit or known default port, the Host line (host, ':', port) is first, the "Accept: */*" line second, and the caller's
   headers follow, for every set of headers added with insert_header. *)
C12_HostThenAcceptThenCaller ==
    (Connected /\ rawOp.before.url.port # None) =>
        \E order \in Orders(DOMAIN rawOp.before.header) :
            SubSeq(rawOp.wrote, Len(RequestLine) + 1, Len(rawOp.wrote))
                = HostThenAccept \o CallerLines(rawOp.before.header, order)

\* The latest call was a write_boundary that succeeded
Uploaded == rawOp.op = "write_boundary" /\ rawOp.ret = "Ok"

\* The index of the first blank line's last byte in w: the end of the first
\* CRLF CRLF; 0 when there is none
BlankLineEnd(w) ==
    LET at == {i \in 4..Len(w) : SubSeq(w, i - 3, i) = <<13, 10, 13, 10>>} IN
    IF at = {} THEN 0 ELSE CHOOSE i \in at : \A j \in at : i <= j

(* C13: a successful write_boundary(payload) with boundary b writes
   "Content-Length: N" CRLF "Content-Type: multipart/form-data; boundary=b"
   CRLF CRLF "--b" CRLF "Content-Disposition: form-data" CRLF
   "Content-Type: application/octet-stream" CRLF CRLF payload CRLF "--b--"
   CRLF, N being the number of bytes after the first blank line, and returns
   the payload's length. *)
C13_MultipartFraming ==
    Uploaded =>
        LET b == rawOp.before.boundary.some
            w == rawOp.wrote
            N == Len(w) - BlankLineEnd(w) IN
        /\ BlankLineEnd(w) # 0
        /\ w = ContentLength \o Decimal(N) \o <<13, 10>>
                 \o ContentTypeMultipart \o b \o <<13, 10, 13, 10>>
                 \o <<45, 45>> \o b \o <<13, 10>>
                 \o ContentDisposition \o <<13, 10>>
                 \o ContentTypeOctets \o <<13, 10, 13, 10>>
                 \o rawOp.arg \o <<13, 10>>
                 \o <<45, 45>> \o b \o <<45, 45, 13, 10>>
        /\ rawOp.val = Len(rawOp.arg)

\* A payload of two bytes that holds a CR was uploaded
C13_Witness ==
    /\ Uploaded
    /\ Len(rawOp.arg) = 2
    /\ 13 \in {rawOp.arg[i] : i \in 1..Len(rawOp.arg)}
    /\ rawOp.val = 2

(* C14: write_boundary and read_response on a session without a transport
   return RequestError, do no i/o and write nothing; a connect that fails
   leaves a session without transport without one; write_boundary on a
   connected session with no boundary set returns RequestError and writes
   nothing. *)
C14_NoTransportIsRequestError ==
    /\ (rawOp.op \in {"write_boundary", "read_response"} /\ ~rawOp.before.tcp_stream)
          => (/\ rawOp.ret = "RequestError"
              /\ rawOp.wrote = <<>>
              /\ ~rawOp.io
              /\ raw = rawOp.before)
    /\ (rawOp.op = "connect" /\ rawOp.ret # "Ok" /\ ~rawOp.before.tcp_stream)
          => ~raw.tcp_stream
    /\ (rawOp.op = "write_boundary" /\ rawOp.before.tcp_stream /\ rawOp.before.boundary = None)
          => (rawOp.ret = "RequestError" /\ rawOp.wrote = <<>> /\ ~rawOp.io)

\* write_boundary was called with a boundary set on a session that has no
\* transport
C14_Witness ==
    /\ rawOp.op = "write_boundary"
    /\ ~rawOp.before.tcp_stream
    /\ rawOp.before.boundary # None
    /\ rawOp.ret = "RequestError"

(* C29: for every HttpErrorKind k, the code k is reported as, read back
   with From<u32>, is k again: no kind is lost or merged into another when
   it crosses the boundary as an integer. *)
C29_KindRoundTrips ==
    \A n \in 1..Len(errLog) :
        LET c == errLog[n] IN
        "sent" \in DOMAIN c => c.kind = c.sent

(* C27: the registry lock is held only for the lookup or the insert itself:
   a task that is in its driver's open() does not hold the lock, so the
   holder of the lock is always a task inside find_driver or insert_driver,
   and a task waiting for the lock never waits for another task's I/O. *)
C27_LockNotHeldAcrossIo ==
    /\ \A t \in Tasks : taskPc[t] = "opening" => lockHolder # t
    /\ lockHolder # NoHolder => taskPc[lockHolder] = "inside"

\* One task is in open() while another holds the lock for its own call
C27_Witness ==
    \E t, u \in Tasks :
        /\ taskPc[t] = "opening"
        /\ taskPc[u] = "inside"
        /\ lockHolder = u

\* read_bulks was handed a buffer holding the whole of a well-formed body
\* and has read nothing since: the transport has nothing more to give, and
\* nothing was taken from it
WholeBodyBuffered == valid /\ wire = <<>> /\ ~reads

(* C26: when the complete chunked body, up to and including the zero-size
   chunk line, is in the buffer handed to read_bulks, read_bulks makes no
   transport read, neither fails nor panics, stops at the zero-size chunk
   line, and returns exactly the payloads in order. *)
C26_BufferedBodyNeedsNoRead ==
    /\ [](WholeBodyBuffered =>
            /\ rpc \in {"loop", "done"}
            /\ rpc = "done" =>
                  /\ chunks = payloads
                  /\ body_bulk = <<48>> \o EOL \o EOL)
    /\ [][WholeBodyBuffered => ~reads']_vars

\* A body of two chunks was decoded from the buffer alone
C26_Witness ==
    /\ WholeBodyBuffered
    /\ rpc = "done"
    /\ Len(chunks) = MaxChunks

(* C24: on a transport whose peer has closed the connection (every read
   past the bytes it sent returns 0 bytes), read_bulks, and with it
   read_response, comes to an end instead of looping forever. *)
C24_ReadResponseTerminates == closed ~> rpc # "loop"

(* C22: for a well-formed response whose header block arrives over any
   number of transport reads, read_response enters the body phase only
   with the header block parsed: parsed_pos is the end of the block and
   the status code is the one of the status line, never 0. *)
C22_HeaderParsedBeforeBody ==
    (respPc = "body" /\ ~respEof) =>
        /\ parsed_pos = Len(sent.block)
        /\ status_code = sent.code

(* C23: http_req validates both guest strings, then checks the permission,
   then invokes the driver: a url or options argument that cannot be read
   yields Utf8Error whatever the permission outcome, a url that does not
   parse yields InvalidUrl, and the driver is invoked only when both
   arguments were valid and the check of the url's host had succeeded. *)
C23_ValidateCheckInvoke ==
    call.op = "http_req" =>
        /\ (~call.arg.ok \/ ~call.arg2.ok) => call.ret = "Utf8Error"
        /\ (call.arg.ok /\ call.arg2.ok /\ ~UrlFromStrOk(call.arg.text))
              => call.ret = "InvalidUrl"
        /\ \A i \in 1..Len(call.events) :
              call.events[i].e = "http_driver"
                  => call.arg.ok /\ call.arg2.ok /\ CheckedBefore(i)

(* C25: request_<class> never revokes: whatever a check of any class
   granted before the call it grants after it; in particular write access
   to a path that was granted is still granted after request_write(path). *)
C25_RequestNeverRevokes ==
    requested # None =>
        \A cls \in Classes, d \in Descs :
            check(requested.before, cls, d) => check(requested.after, cls, d)

\* is_connect
is_connect(r) == r.tcp_stream

(* C28: a session made by from_url is not connected; is_connect() becomes
   true only in a connect() that returns Ok, and stays true; a connect()
   that returns Ok has opened the transport and written the whole of the
   request line and headers to it; a connect() that fails in the address
   resolution, the TCP connect or the write returns an error and leaves the
   session's transport as it was, absent if it was absent. *)
C28_ConnectedIffConnectOk ==
    /\ [](rawOp = NoCall => ~is_connect(raw))
    /\ [](rawOp.op = "connect" =>
            /\ rawOp.ret = "Ok" =>
                  /\ is_connect(raw)
                  /\ rawOp.io
                  /\ rawOp.wrote = get_req_raw(rawOp.before, rawOp.arg)
            /\ rawOp.ret # "Ok" => is_connect(raw) = is_connect(rawOp.before))
    /\ [][is_connect(raw') # is_connect(raw) =>
            /\ ~is_connect(raw)
            /\ rawOp'.op = "connect"
            /\ rawOp'.ret = "Ok"]_vars

\* A connect on a session without transport failed after a part of the
\* request was written, and the session is still without transport
C28_Witness ==
    /\ rawOp.op = "connect"
    /\ rawOp.ret = "RequestError"
    /\ rawOp.wrote # <<>>
    /\ ~is_connect(rawOp.before)
    /\ ~is_connect(raw)

(* C21: after into_config, when at least one --module was given the modules
   are the --module values followed by the input file as a module of type
   Entry, the version is Version1, and the entry is the --entry value or,
   without --entry, "_start"; when no --module was given the version is
   what it was (Version0) and the entry is the --entry value or, without
   --entry, what the configuration had. *)
C21_ModulesEntryVersion ==
    cfgPc = "done" =>
        IF Len(cliOpts.modules) > 0
        THEN /\ conf.modules = cliOpts.modules \o <<EntryModule(cliOpts.input)>>
             /\ conf.version = "Version1"
             /\ conf.entry = IF cliOpts.entry # None THEN cliOpts.entry.some ELSE "_start"
        ELSE /\ conf.version = confThen.version
             /\ conf.version = "Version0"
             /\ conf.entry = IF cliOpts.entry # None THEN cliOpts.entry.some ELSE confThen.entry

\* into_config was given two modules and no --entry
C21_Witness ==
    /\ cfgPc = "done"
    /\ Len(cliOpts.modules) = MaxModules
    /\ cliOpts.entry = None
    /\ conf.entry = "_start"

(* C30: after into_config, the memory limit is the --limited-memory value
   whenever --limited-memory is given and --max_memory_size is not. *)
C30_AbsentOptionErasesNothing ==
    (cfgPc = "done" /\ cliOpts.limited_memory # None /\ cliOpts.max_memory_size = None)
        => conf.limited_memory = cliOpts.limited_memory

====
